---- MODULE Spec2Model ----
(***************************************************************************)
(* Model of the prefix fetcher (package fetch and its callers): the ASN    *)
(* validity filter, the /24 normalisation of IPv4 prefixes, the prefix     *)
(* ordering, the delegated-file parser, the extraction of a country's     *)
(* ASNs, the BGP table fetch with retry, the resolution of an ASN list     *)
(* into prefixes, and the run for one country that writes the two files.   *)
(*                                                                         *)
(* Numbers that do not fit TLC's 32-bit integers (Go's 64-bit int for an   *)
(* ASN, the big.Int of an IPv4 address) are kept exactly, as two limbs in  *)
(* base 65536: value = hi * 65536 + lo, with 0 <= lo < 65536.              *)
(***************************************************************************)
EXTENDS Integers, Sequences, FiniteSets, TLC

VARIABLES
    asnPc, asn, asnResult,          \* isValidPublicASN applied to one ASN
    splitPc, splitIn, splitOut,     \* splitToBlocks applied to one prefix
    cmpPc, cmpIn, cmpOut, sortOut,  \* prefixCompare and SortFunc on three prefixes
    convPc, convIn, convOut, convOut2,  \* convertToIPv4Blocks, applied twice
    retryPc, attempt, lastErr, resp, ret, delays, calls, dropped,
                                    \* fetchWithRetrySimple
    parsePc, stream, parsed,        \* parseDelegatedFile on one stream
    pfxPc, asnList, bgp, prefixSet,
                                    \* GetPrefixesForASNs on one list and one fetch
    exPc, exRecords, exCC, exAsns, exSorted,
                                    \* extractASNsForCountry and sort.Ints
    runPc, country, rir, regRequests, regResp, asnsRet, files, runErr,
                                    \* fetchAndSavePrefixes for one country
    filtPc, filtPrefixes, filtAsns, filtOut,
                                    \* filterByASN on one table and one list
    wrPc, cfg, buckets, wg, tpc, tlist, tpos, tbuf, terr, tflush, disk, crashed
                                    \* fetchPrefixesForCountry and its two writers

asnVars == <<asnPc, asn, asnResult>>
splitVars == <<splitPc, splitIn, splitOut>>
cmpVars == <<cmpPc, cmpIn, cmpOut, sortOut>>
convVars == <<convPc, convIn, convOut, convOut2>>
retryVars == <<retryPc, attempt, lastErr, resp, ret, delays, calls, dropped>>
parseVars == <<parsePc, stream, parsed>>
pfxVars == <<pfxPc, asnList, bgp, prefixSet>>
extVars == <<exPc, exRecords, exCC, exAsns, exSorted>>
runVars == <<runPc, country, rir, regRequests, regResp, asnsRet, files, runErr>>
filtVars == <<filtPc, filtPrefixes, filtAsns, filtOut>>
wrVars == <<wrPc, cfg, buckets, wg, tpc, tlist, tpos, tbuf, terr, tflush, disk, crashed>>
vars == <<asnVars, splitVars, cmpVars, convVars, retryVars, parseVars, pfxVars, extVars,
          runVars, filtVars, wrVars>>

-----------------------------------------------------------------------------
(* Two-limb integers.                                                      *)

Limb == 256 * 256

I64(h, l) == [hi |-> h, lo |-> l]

Lt(a, b) == a.hi < b.hi \/ (a.hi = b.hi /\ a.lo < b.lo)
Le(a, b) == a = b \/ Lt(a, b)
Ge(a, b) == Le(b, a)

\* x + n for a small natural n (n < 2^31 - 65536)
AddSmall(x, n) == I64(x.hi + ((x.lo + n) \div Limb), (x.lo + n) % Limb)

Pow2(n) == 2 ^ n

-----------------------------------------------------------------------------
(* isValidPublicASN, src/fetch/asn_delegated.go:222-255.                   *)

\* the literals of the function, as limbs
ASN_0 == I64(0, 0)
ASN_1 == I64(0, 1)
ASN_64511 == I64(0, 64511)
ASN_64512 == I64(0, 64512)
ASN_65534 == I64(0, 65534)
ASN_65535 == I64(0, 65535)
ASN_131072 == I64(2, 0)
ASN_4199999999 == I64(64086, 59903)
ASN_4200000000 == I64(64086, 59904)
ASN_4294967294 == I64(65535, 65534)
ASN_4294967295 == I64(65535, 65535)

\* a plausible slip: the lower bound of the 32-bit public range taken strictly
isValidPublicASN_strict(a) ==
    IF a = ASN_0 THEN FALSE
    ELSE IF Ge(a, ASN_64512) /\ Le(a, ASN_65534) THEN FALSE
    ELSE IF a = ASN_65535 THEN FALSE
    ELSE IF Ge(a, ASN_4200000000) /\ Le(a, ASN_4294967294) THEN FALSE
    ELSE IF a = ASN_4294967295 THEN FALSE
    ELSE IF Ge(a, ASN_1) /\ Le(a, ASN_64511) THEN TRUE
    ELSE IF Lt(ASN_131072, a) /\ Le(a, ASN_4199999999) THEN TRUE
    ELSE FALSE

isValidPublicASN(a) ==
    IF a = ASN_0 THEN FALSE
    ELSE IF Ge(a, ASN_64512) /\ Le(a, ASN_65534) THEN FALSE
    ELSE IF a = ASN_65535 THEN FALSE
    ELSE IF Ge(a, ASN_4200000000) /\ Le(a, ASN_4294967294) THEN FALSE
    ELSE IF a = ASN_4294967295 THEN FALSE
    ELSE IF Ge(a, ASN_1) /\ Le(a, ASN_64511) THEN TRUE
    ELSE IF Ge(a, ASN_131072) /\ Le(a, ASN_4199999999) THEN TRUE
    ELSE FALSE

\* The ASNs tried: every limb within ASNWindow of a limb of one of the
\* function's literals, which covers 0, 1, 64511, 64512, 65534, 65535, 65536,
\* 131071, 131072, 4199999999, 4200000000, 4294967294, 4294967295, negative
\* values (hi < 0) and values beyond 32 bits (hi >= 65536).
ASNWindow == 1

Near(S, lowest, highest) ==
    {x \in lowest..highest : \E b \in S : x >= b - ASNWindow /\ x <= b + ASNWindow}

ASNHiSamples == Near({0, 1, 2, 64086, 65535}, -2 - ASNWindow, 65536 + ASNWindow)
ASNLoSamples == Near({0, 59903, 64511, 65534}, 0, 65535)
ASNSamples == {I64(h, l) : h \in ASNHiSamples, l \in ASNLoSamples}

ASNIdle == asnPc = "idle" /\ asn = ASN_0 /\ asnResult = FALSE

CheckASN ==
    /\ asnPc = "input"
    /\ asnPc' = "done"
    /\ asnResult' = isValidPublicASN(asn)
    /\ UNCHANGED <<asn, splitVars, cmpVars, convVars, retryVars, parseVars, pfxVars, extVars, runVars, filtVars, wrVars>>

-----------------------------------------------------------------------------
(* IP addresses and prefixes (net/netip as the code uses it).  An address  *)
(* is its big-endian byte sequence: 4 bytes for IPv4, 16 for IPv6, none    *)
(* for the zero Addr.  A prefix is an address and a length; the address    *)
(* keeps whatever host bits the text had (ParsePrefix does not mask).      *)

PrefixFrom(a, b) == [addr |-> a, bits |-> b]
Is4(a) == Len(a) = 4
Is6(a) == Len(a) = 16
BitLen(a) == 8 * Len(a)

\* ipToInt, src/fetch/api.go:102-104: big.Int.SetBytes of the 4 bytes
ipToInt(ip) == I64(ip[1] * 256 + ip[2], ip[3] * 256 + ip[4])

\* FillBytes(4 bytes) panics when the value needs more than 4 bytes
FitsIn4(x) == x.hi < Limb

\* intToIP, src/fetch/api.go:106-111
intToIP(x) == <<x.hi \div 256, x.hi % 256, x.lo \div 256, x.lo % 256>>

Returned(v) == [panic |-> FALSE, val |-> v]
Panicked == [panic |-> TRUE, val |-> <<>>]

\* a plausible slip: the last octet is left as it is
alignBlock_keepOctet(prefix) ==
    Returned(<<PrefixFrom(prefix.addr, 24)>>)

\* splitToBlocks for prefix.Bits() >= 24, src/fetch/api.go:76-84
alignBlock(prefix) ==
    LET bytes == [prefix.addr EXCEPT ![4] = 0]
    IN  Returned(<<PrefixFrom(bytes, 24)>>)

\* splitToBlocks for prefix.Bits() < 24, src/fetch/api.go:86-99: block i is
\* the address plus 256 * (i - 1); the conversion of the i-th value happens
\* before the i-th addition, so the value after the last addition is never
\* converted.
splitLarger(prefix) ==
    LET blockCount == Pow2(24 - prefix.bits)
        baseInt == ipToInt(prefix.addr)
        at(i) == AddSmall(baseInt, 256 * (i - 1))
    IN  IF FitsIn4(at(blockCount))
        THEN Returned([i \in 1..blockCount |-> PrefixFrom(intToIP(at(i)), 24)])
        ELSE Panicked

splitToBlocks(prefix) ==
    IF prefix.bits >= 24 THEN alignBlock(prefix) ELSE splitLarger(prefix)

\* The prefixes tried: lengths 24 - MaxSplit .. 32 over addresses that
\* include masked and unmasked ones and the top of the address space.
MaxSplit == 8

SplitOctets1 == {10, 255}
SplitOctets2 == {0, 255}
SplitOctets3 == {0, 1, 192, 255}
SplitOctets4 == {0, 5}
SplitAddrs ==
    {<<a, b, c, d>> : a \in SplitOctets1, b \in SplitOctets2,
                      c \in SplitOctets3, d \in SplitOctets4}
SplitSamples == {PrefixFrom(a, b) : a \in SplitAddrs, b \in (24 - MaxSplit)..32}

NoPrefix == PrefixFrom(<<>>, -1)

SplitIdle == splitPc = "idle" /\ splitIn = NoPrefix /\ splitOut = Panicked

Split ==
    /\ splitPc = "input"
    /\ splitPc' = "done"
    /\ splitOut' = splitToBlocks(splitIn)
    /\ UNCHANGED <<splitIn, asnVars, cmpVars, convVars, retryVars, parseVars, pfxVars, extVars, runVars, filtVars, wrVars>>

-----------------------------------------------------------------------------
(* prefixCompare and the sort that uses it.                                *)

\* cmp.Compare on integers
cmpCompare(x, y) == IF x < y THEN -1 ELSE IF x > y THEN 1 ELSE 0

\* netip.Addr.Compare: the bit length first, then the address as an unsigned
\* number, which for big-endian bytes of equal length is the order of the
\* first byte that differs (a Prefix carries no zone)
AddrCompare(a, b) ==
    IF BitLen(a) # BitLen(b) THEN cmpCompare(BitLen(a), BitLen(b))
    ELSE IF a = b THEN 0
    ELSE LET k == CHOOSE k \in 1..Len(a) :
                      a[k] # b[k] /\ \A j \in 1..(k - 1) : a[j] = b[j]
         IN  cmpCompare(a[k], b[k])

\* a plausible slip: the length compared before the family
prefixCompare_bitsFirst(a, b) ==
    IF cmpCompare(a.bits, b.bits) # 0
    THEN cmpCompare(a.bits, b.bits)
    ELSE IF cmpCompare(BitLen(a.addr), BitLen(b.addr)) # 0
    THEN cmpCompare(BitLen(a.addr), BitLen(b.addr))
    ELSE AddrCompare(a.addr, b.addr)

\* prefixCompare, src/unnamed/part_002:118-126
prefixCompare(a, b) ==
    IF cmpCompare(BitLen(a.addr), BitLen(b.addr)) # 0
    THEN cmpCompare(BitLen(a.addr), BitLen(b.addr))
    ELSE IF cmpCompare(a.bits, b.bits) # 0
    THEN cmpCompare(a.bits, b.bits)
    ELSE AddrCompare(a.addr, b.addr)

\* slices.SortFunc(s, prefixCompare): the elements of s in ascending order.
\* Position k holds the element that has k - 1 elements before it, counting
\* an equal element as before when it stood earlier in s.  (Appending <<>>
\* makes TLC tabulate a sequence once instead of at every use.)
SortFunc(s) ==
    LET n == Len(s)
        items == s \o <<>>
        before(j, i) ==
            LET c == prefixCompare(items[j], items[i]) IN c < 0 \/ (c = 0 /\ j < i)
        rank == [i \in 1..n |-> Cardinality({j \in 1..n : before(j, i)})] \o <<>>
    IN  [k \in 1..n |-> items[CHOOSE i \in 1..n : rank[i] = k - 1]] \o <<>>

\* an IPv6 address from its first two 16-bit groups, the rest zero
V6(g1, g2) ==
    <<g1 \div 256, g1 % 256, g2 \div 256, g2 % 256>> \o [i \in 1..12 |-> 0]

\* The prefixes compared: both families, several lengths (an IPv6 prefix
\* shorter than the IPv4 ones among them), addresses whose byte order and
\* numeric order must agree, an unmasked one, an IPv4-mapped IPv6 one, and
\* the zero Prefix.
CmpSamples ==
    { PrefixFrom(<<10, 0, 0, 0>>, 8),
      PrefixFrom(<<10, 0, 0, 0>>, 24),
      PrefixFrom(<<10, 0, 1, 0>>, 24),
      PrefixFrom(<<9, 255, 0, 7>>, 24),
      PrefixFrom(V6(8192, 0), 12),
      PrefixFrom(V6(8193, 3512), 32),
      PrefixFrom(V6(8193, 3512), 48),
      PrefixFrom(V6(10752, 0), 32),
      PrefixFrom([i \in 1..16 |-> IF i \in {11, 12} THEN 255 ELSE IF i = 13 THEN 10 ELSE 0], 104),
      NoPrefix }

CmpIdle == cmpPc = "idle" /\ cmpIn = <<>> /\ cmpOut = <<>> /\ sortOut = <<>>

\* every pairwise comparison of the three prefixes
Compare ==
    /\ cmpPc = "input"
    /\ cmpPc' = "compared"
    /\ cmpOut' = [i \in 1..Len(cmpIn) |->
                    [j \in 1..Len(cmpIn) |-> prefixCompare(cmpIn[i], cmpIn[j])]]
    /\ UNCHANGED <<cmpIn, sortOut, asnVars, splitVars, convVars, retryVars, parseVars, pfxVars, extVars, runVars, filtVars, wrVars>>

\* the list sorted, then the sorted list sorted again
SortTwice ==
    /\ cmpPc = "compared"
    /\ cmpPc' = "sorted"
    /\ sortOut' = <<SortFunc(cmpIn), SortFunc(SortFunc(cmpIn))>>
    /\ UNCHANGED <<cmpIn, cmpOut, asnVars, splitVars, convVars, retryVars, parseVars, pfxVars, extVars, runVars, filtVars, wrVars>>

-----------------------------------------------------------------------------
(* convertToIPv4Blocks, src/fetch/api.go:49-72.                            *)

\* the blocks of every IPv4 prefix of the list, in the order the loop of
\* lines 56-63 inserts them into blockSet
RECURSIVE InsertedBlocks(_)
InsertedBlocks(prefixes) ==
    IF prefixes = <<>> THEN <<>>
    ELSE (IF Is4(Head(prefixes).addr) THEN splitToBlocks(Head(prefixes)).val ELSE <<>>)
         \o InsertedBlocks(Tail(prefixes))

\* a sequence without its repeated elements (the keys of the map, in first
\* insertion order)
FirstOccurrences(all) ==
    LET items == all \o <<>>
        tagged == [i \in 1..Len(items) |-> <<i, items[i]>>]
        kept == SelectSeq(tagged, LAMBDA t : \A j \in 1..(t[1] - 1) : items[j] # t[2])
    IN  [k \in 1..Len(kept) |-> kept[k][2]]

\* Go iterates a map in an unspecified order: every order of the keys for a
\* map of at most MaxMapOrder keys, the insertion order for a larger one.
MaxMapOrder == 4

MapKeyOrders(keys) ==
    IF Len(keys) <= MaxMapOrder
    THEN {[k \in 1..Len(keys) |-> keys[p[k]]] : p \in Permutations(1..Len(keys))}
    ELSE {keys}

\* the loop of lines 56-63 panics when one splitToBlocks panics
ConvertPanics(prefixes) ==
    \E i \in 1..Len(prefixes) :
        Is4(prefixes[i].addr) /\ splitToBlocks(prefixes[i]).panic

\* a plausible slip: the blocks are appended without the map
convertToIPv4Blocks_noSet(prefixes, order) ==
    IF Len(prefixes) = 0 THEN Returned(<<>>)
    ELSE IF ConvertPanics(prefixes) THEN Panicked
    ELSE Returned(SortFunc(InsertedBlocks(prefixes)))

\* order: the order in which `for block := range blockSet` yields the keys
convertToIPv4Blocks(prefixes, order) ==
    IF Len(prefixes) = 0 THEN Returned(<<>>)
    ELSE IF ConvertPanics(prefixes) THEN Panicked
    ELSE Returned(SortFunc(order))

ConvertOutcomes(prefixes) ==
    {convertToIPv4Blocks(prefixes, order) :
        order \in MapKeyOrders(FirstOccurrences(InsertedBlocks(prefixes)))}

\* The lists normalised: up to MaxConvLen prefixes, with repeated, nested and
\* overlapping ones, several longer than /24 in one /24, unmasked ones, one
\* whose split leaves the address space, and an IPv6 one (skipped).
MaxConvLen == 2

ConvSamples ==
    { PrefixFrom(<<10, 0, 0, 0>>, 22),
      PrefixFrom(<<10, 0, 0, 0>>, 23),
      PrefixFrom(<<10, 0, 2, 0>>, 24),
      PrefixFrom(<<9, 255, 255, 0>>, 24),
      PrefixFrom(<<10, 0, 0, 16>>, 28),
      PrefixFrom(<<10, 0, 0, 9>>, 32),
      PrefixFrom(<<10, 0, 0, 5>>, 23),
      PrefixFrom(<<10, 0, 1, 0>>, 23),
      PrefixFrom(<<255, 255, 255, 0>>, 23),
      PrefixFrom(V6(8193, 3512), 32) }

ConvLists == UNION {[1..n -> ConvSamples] : n \in 0..MaxConvLen}

ConvIdle == convPc = "idle" /\ convIn = <<>> /\ convOut = Panicked /\ convOut2 = Panicked

Convert ==
    /\ convPc = "input"
    /\ convPc' = "once"
    /\ convOut' \in ConvertOutcomes(convIn)
    /\ UNCHANGED <<convIn, convOut2, asnVars, splitVars, cmpVars, retryVars, parseVars, pfxVars, extVars, runVars, filtVars, wrVars>>

\* the returned list normalised again
ConvertAgain ==
    /\ convPc = "once"
    /\ ~convOut.panic
    /\ convPc' = "twice"
    /\ convOut2' \in ConvertOutcomes(convOut.val)
    /\ UNCHANGED <<convIn, convOut, asnVars, splitVars, cmpVars, retryVars, parseVars, pfxVars, extVars, runVars, filtVars, wrVars>>

-----------------------------------------------------------------------------
(* The BGP table fetch: fetchPrefixesSimple and fetchWithRetrySimple,      *)
(* src/unnamed/part_002:15-88.                                             *)

\* a plausible slip: one attempt fewer
maxRetries_three == 4 - 1

maxRetries == 4
\* retryDelay, in base units (one second)
retryDelay == 1

\* An HTTP exchange as the client sees it: client.Do fails ("connErr"), or a
\* response arrives with a status code and a body.  A body is the lines
\* bufio.Scanner yields and the way the scan ends: "eof" (scanner.Err() is
\* nil), "readErr" (the stream fails) or "tooLong" (the next line exceeds
\* the scanner's buffer); scanner.Err() is non-nil in the last two.
Response(k, c, l, e) == [kind |-> k, code |-> c, lines |-> l, end |-> e]
NoResponse == Response("none", 0, <<>>, "eof")

\* A line of the table, by what json.Unmarshal makes of it: "blank" (empty
\* after TrimSpace), "garbage" (not JSON) or an "object" whose CIDR and ASN
\* members are absent, of the wrong form ("bad") or usable ("ok").
Member(t, v) == [tag |-> t, val |-> v]
BGPLine(k, c, a) == [kind |-> k, cidr |-> c, asn |-> a]
AbsentCIDR == Member("absent", NoPrefix)
AbsentASN == Member("absent", 0)
BlankLine == BGPLine("blank", AbsentCIDR, AbsentASN)
GarbageLine == BGPLine("garbage", AbsentCIDR, AbsentASN)

\* type Prefix, lines 23-26
Entry(c, a) == [CIDR |-> c, ASN |-> a]

\* json.Unmarshal([]byte(line), &prefix), line 76: an absent member leaves
\* the field at its zero value
jsonUnmarshal(line) ==
    IF line.kind # "object" \/ line.cidr.tag = "bad" \/ line.asn.tag = "bad"
    THEN [ok |-> FALSE, val |-> Entry(NoPrefix, 0)]
    ELSE [ok |-> TRUE, val |-> Entry(line.cidr.val, line.asn.val)]

Err(k, c) == [kind |-> k, code |-> c]
NoErr == Err("nil", 0)

\* the loop of lines 69-81 over the lines scanned
RECURSIVE scanEntries(_)
scanEntries(lines) ==
    IF lines = <<>> THEN <<>>
    ELSE LET line == Head(lines)
             rest == scanEntries(Tail(lines))
         IN  IF line.kind = "blank" THEN rest
             ELSE IF ~jsonUnmarshal(line).ok THEN rest
             ELSE <<jsonUnmarshal(line).val>> \o rest

\* a plausible slip: a line that does not decode fails the attempt
fetchPrefixesSimple_strict(r) ==
    IF r.kind = "connErr" THEN [prefixes |-> <<>>, err |-> Err("request failed", 0)]
    ELSE IF r.code # 200 THEN [prefixes |-> <<>>, err |-> Err("HTTP", r.code)]
    ELSE IF \E i \in 1..Len(r.lines) :
                r.lines[i].kind # "blank" /\ ~jsonUnmarshal(r.lines[i]).ok
    THEN [prefixes |-> <<>>, err |-> Err("invalid line", 0)]
    ELSE IF r.end # "eof"
    THEN [prefixes |-> <<>>, err |-> Err("failed to read response: " \o r.end, 0)]
    ELSE [prefixes |-> scanEntries(r.lines), err |-> NoErr]

\* a plausible slip: a table without entries counts as a failed attempt
fetchPrefixesSimple_emptyFails(r) ==
    IF r.kind = "connErr" THEN [prefixes |-> <<>>, err |-> Err("request failed", 0)]
    ELSE IF r.code # 200 THEN [prefixes |-> <<>>, err |-> Err("HTTP", r.code)]
    ELSE IF r.end # "eof"
    THEN [prefixes |-> <<>>, err |-> Err("failed to read response: " \o r.end, 0)]
    ELSE IF scanEntries(r.lines) = <<>> THEN [prefixes |-> <<>>, err |-> Err("empty table", 0)]
    ELSE [prefixes |-> scanEntries(r.lines), err |-> NoErr]

\* fetchPrefixesSimple, lines 49-88 (http.NewRequest cannot fail on the
\* constant URL)
fetchPrefixesSimple(r) ==
    IF r.kind = "connErr" THEN [prefixes |-> <<>>, err |-> Err("request failed", 0)]
    ELSE IF r.code # 200 THEN [prefixes |-> <<>>, err |-> Err("HTTP", r.code)]
    ELSE IF r.end # "eof"
    THEN [prefixes |-> <<>>, err |-> Err("failed to read response: " \o r.end, 0)]
    ELSE [prefixes |-> scanEntries(r.lines), err |-> NoErr]

\* The exchanges tried: bodies of up to MaxLines lines.
MaxLines == 2

BGPLineSamples ==
    { BGPLine("object", Member("ok", PrefixFrom(<<10, 0, 0, 0>>, 22)), Member("ok", 12880)),
      BGPLine("object", Member("ok", PrefixFrom(V6(8193, 3512), 32)), Member("ok", 12880)),
      BGPLine("object", AbsentCIDR, AbsentASN),
      BGPLine("object", Member("bad", NoPrefix), Member("ok", 12880)),
      BGPLine("object", Member("ok", PrefixFrom(<<10, 0, 0, 0>>, 22)), Member("bad", 0)),
      BlankLine,
      GarbageLine }

BGPBodies == UNION {[1..n -> BGPLineSamples] : n \in 0..MaxLines}

Responses ==
    {Response("connErr", 0, <<>>, "eof")}
    \cup {Response("http", c, <<>>, "eof") : c \in {404, 500}}
    \cup {Response("http", 200, l, e) : l \in BGPBodies, e \in {"eof", "readErr", "tooLong"}}

NoLastErr == [attempt |-> 0, err |-> NoErr]
NoReturn == [prefixes |-> <<>>, err |-> NoErr, wraps |-> NoLastErr]

RetryIdle ==
    /\ retryPc = "idle" /\ attempt = 0 /\ lastErr = NoLastErr /\ resp = NoResponse
    /\ ret = NoReturn /\ delays = <<>> /\ calls = 0 /\ dropped = {}

\* One pass of the loop body up to the test of err, lines 33-38: the call of
\* fetchPrefixesSimple on the exchange r.  calls counts the calls; dropped
\* collects the entries a failed attempt had decoded when it returned nil.
Attempt(r) ==
    /\ retryPc = "call"
    /\ attempt <= maxRetries
    /\ resp' = r
    /\ calls' = calls + 1
    /\ LET out == fetchPrefixesSimple(r)
       IN  IF out.err = NoErr
           THEN /\ ret' = [prefixes |-> out.prefixes, err |-> NoErr, wraps |-> NoLastErr]
                /\ retryPc' = "done"
                /\ UNCHANGED <<lastErr, dropped>>
           ELSE /\ lastErr' = [attempt |-> attempt, err |-> out.err]
                /\ dropped' = dropped \cup {scanEntries(r.lines)[i] :
                                               i \in 1..Len(scanEntries(r.lines))}
                /\ retryPc' = IF attempt < maxRetries THEN "sleep" ELSE "exhausted"
                /\ UNCHANGED ret
    /\ UNCHANGED <<attempt, delays, asnVars, splitVars, cmpVars, convVars, parseVars, pfxVars, extVars, runVars, filtVars, wrVars>>

\* a plausible slip: the delay doubles from one attempt to the next
backoffDelay_exponential(n) == (2 ^ (n - 1)) * retryDelay

\* delay := time.Duration(attempt) * retryDelay, line 40
backoffDelay(n) == n * retryDelay

\* time.Sleep(delay), then attempt++, lines 39-43
Backoff ==
    /\ retryPc = "sleep"
    /\ delays' = Append(delays, backoffDelay(attempt))
    /\ attempt' = attempt + 1
    /\ retryPc' = "call"
    /\ UNCHANGED <<lastErr, resp, ret, calls, dropped, asnVars, splitVars, cmpVars, convVars, parseVars, pfxVars, extVars, runVars, filtVars, wrVars>>

\* the loop ends and line 45 returns the wrapped last error
GiveUp ==
    /\ retryPc = "exhausted"
    /\ ret' = [prefixes |-> <<>>, err |-> Err("all attempts failed", maxRetries),
               wraps |-> lastErr]
    /\ retryPc' = "done"
    /\ UNCHANGED <<attempt, lastErr, resp, delays, calls, dropped,
                   asnVars, splitVars, cmpVars, convVars, parseVars, pfxVars, extVars, runVars, filtVars, wrVars>>

-----------------------------------------------------------------------------
(* The delegated-file parser, src/fetch/asn_delegated.go:129-179.          *)
(* A line is a sequence of tokens: the separator "|", the blank " ", the   *)
(* comment mark "#", and words that contain none of the three.             *)

Pipe == "|"
Blank == " "
Hash == "#"

\* strings.TrimSpace
RECURSIVE TrimLeft(_)
TrimLeft(line) ==
    IF line # <<>> /\ Head(line) = Blank THEN TrimLeft(Tail(line)) ELSE line
RECURSIVE TrimRight(_)
TrimRight(line) ==
    IF line # <<>> /\ line[Len(line)] = Blank
    THEN TrimRight(SubSeq(line, 1, Len(line) - 1)) ELSE line
TrimSpace(line) == TrimRight(TrimLeft(line))

\* strings.HasPrefix and strings.Contains
HasPrefix(line, pre) == Len(line) >= Len(pre) /\ SubSeq(line, 1, Len(pre)) = pre
Contains(line, sub) ==
    \E i \in 1..(Len(line) - Len(sub) + 1) : SubSeq(line, i, i + Len(sub) - 1) = sub

\* strings.Split(line, "|")
RECURSIVE SplitPipes(_)
SplitPipes(line) ==
    IF \A i \in 1..Len(line) : line[i] # Pipe THEN <<line>>
    ELSE LET k == CHOOSE k \in 1..Len(line) :
                      line[k] = Pipe /\ \A j \in 1..(k - 1) : line[j] # Pipe
         IN  <<SubSeq(line, 1, k - 1)>> \o SplitPipes(SubSeq(line, k + 1, Len(line)))

\* type DelegatedRecord, lines 51-59
DelegatedRecord(parts) ==
    [Registry |-> parts[1], CC |-> parts[2], Type |-> parts[3], Start |-> parts[4],
     Value |-> parts[5], Date |-> parts[6], Status |-> parts[7]]
EmptyRecord == DelegatedRecord([i \in 1..7 |-> <<>>])

\* a plausible slip: a line is accepted only with exactly 7 fields
parseDelegatedRecord_exactly7(line) ==
    LET parts == SplitPipes(line)
    IN  IF Len(parts) # 7 THEN [ok |-> FALSE, val |-> EmptyRecord]
        ELSE [ok |-> TRUE, val |-> DelegatedRecord(parts)]

\* parseDelegatedRecord, lines 164-179
parseDelegatedRecord(line) ==
    LET parts == SplitPipes(line)
    IN  IF Len(parts) < 7 THEN [ok |-> FALSE, val |-> EmptyRecord]
        ELSE [ok |-> TRUE, val |-> DelegatedRecord(parts)]

\* the loop of lines 133-154 over the lines scanned
RECURSIVE scanRecords(_)
scanRecords(lines) ==
    IF lines = <<>> THEN <<>>
    ELSE LET line == TrimSpace(Head(lines))
             rest == scanRecords(Tail(lines))
         IN  IF line = <<>> \/ HasPrefix(line, <<Hash>>) THEN rest
             ELSE IF Contains(line, <<Pipe, "version", Pipe>>)
                     \/ Contains(line, <<Pipe, "summary", Pipe>>) THEN rest
             ELSE IF ~parseDelegatedRecord(line).ok THEN rest
             ELSE <<parseDelegatedRecord(line).val>> \o rest

\* parseDelegatedFile, lines 129-161, on a stream: the lines the scanner
\* yields and the way the scan ends (as for a response body)
File(l, e) == [lines |-> l, end |-> e]

\* a plausible slip: a failed read returns the records parsed so far
parseDelegatedFile_partial(reader) ==
    IF reader.end # "eof"
    THEN [records |-> scanRecords(reader.lines),
          err |-> Err("error reading delegated file: " \o reader.end, 0)]
    ELSE [records |-> scanRecords(reader.lines), err |-> NoErr]

parseDelegatedFile(reader) ==
    IF reader.end # "eof"
    THEN [records |-> <<>>, err |-> Err("error reading delegated file: " \o reader.end, 0)]
    ELSE [records |-> scanRecords(reader.lines), err |-> NoErr]

\* The streams parsed: up to MaxFileLines lines.
MaxFileLines == 3

Fields(ws) ==
    [i \in 1..(2 * Len(ws) - 1) |-> IF i % 2 = 1 THEN ws[(i + 1) \div 2] ELSE Pipe]

FileLineSamples ==
    { Fields(<<"ripencc", "IR", "asn", "12880", "1", "20110101", "allocated">>),
      <<Blank>> \o Fields(<<"apnic", "CN", "asn", "4608", "2", "19930101", "assigned">>)
                \o <<Blank, Blank>>,
      Fields(<<"ripencc", "IR", "asn", "64510", "5", "20110101", "reserved", "extra">>),
      Fields(<<"a", "b", "c", "d", "e", "f">>),
      Fields(<<"2", "version", "c", "d", "e", "f", "g">>),
      Fields(<<"version", "b", "c", "d", "e", "f", "g">>),
      Fields(<<"ripencc", "*", "asn", "*", "5", "summary", "g">>),
      Fields(<<"ripencc", "*", "asn", "*", "5", "f", "summary">>),
      <<Hash>> \o Fields(<<"a", "b", "c", "d", "e", "f", "g">>),
      <<Blank, Hash, "note">>,
      <<"a", Hash>> \o Fields(<<"a", "b", "c", "d", "e", "f", "g">>),
      <<Pipe, Pipe, Pipe, Pipe, Pipe, Pipe>>,
      <<Blank, Blank>>,
      <<>> }

FileBodies == UNION {[1..n -> FileLineSamples] : n \in 0..MaxFileLines}
Files == {File(l, e) : l \in FileBodies, e \in {"eof", "readErr", "tooLong"}}

NoRecords == [records |-> <<>>, err |-> NoErr]

ParseIdle == parsePc = "idle" /\ stream = File(<<>>, "eof") /\ parsed = NoRecords

Parse ==
    /\ parsePc = "input"
    /\ parsePc' = "done"
    /\ parsed' = parseDelegatedFile(stream)
    /\ UNCHANGED <<stream, asnVars, splitVars, cmpVars, convVars, retryVars, pfxVars, extVars, runVars, filtVars, wrVars>>

-----------------------------------------------------------------------------
(* filterByASN, src/unnamed/part_002:91-115, and GetPrefixesForASNs,       *)
(* src/fetch/api.go:27-46.                                                 *)

CIDRsOf(entries) == [i \in 1..Len(entries) |-> entries[i].CIDR]

\* a plausible slip: whatever is not IPv4 goes to the IPv6 bucket
filterByASN_elseV6(prefixes, asns) ==
    LET asnSet == {asns[i] : i \in 1..Len(asns)}
        kept == SelectSeq(prefixes, LAMBDA e : e.ASN \in asnSet)
        v4 == CIDRsOf(SelectSeq(kept, LAMBDA e : Is4(e.CIDR.addr)))
        v6 == CIDRsOf(SelectSeq(kept, LAMBDA e : ~Is4(e.CIDR.addr)))
    IN  [v4 |-> SortFunc(v4), v6 |-> SortFunc(v6)]

filterByASN(prefixes, asns) ==
    LET asnSet == {asns[i] : i \in 1..Len(asns)}
        kept == SelectSeq(prefixes, LAMBDA e : e.ASN \in asnSet)
        v4 == CIDRsOf(SelectSeq(kept, LAMBDA e : Is4(e.CIDR.addr)))
        v6 == CIDRsOf(SelectSeq(kept, LAMBDA e : Is6(e.CIDR.addr)))
    IN  [v4 |-> SortFunc(v4), v6 |-> SortFunc(v6)]

\* what GetPrefixesForASNs hands back: *PrefixSet (api.go:15-18) and error;
\* nil: the pointer is nil; cause: the error that err wraps
PrefixSet(v4, v6) ==
    [panic |-> FALSE, nil |-> FALSE, IPv4 |-> v4, IPv6 |-> v6, err |-> NoErr, cause |-> NoErr]
FetchFailed(e) ==
    [panic |-> FALSE, nil |-> TRUE, IPv4 |-> <<>>, IPv6 |-> <<>>,
     err |-> Err("failed to fetch BGP data", 0), cause |-> e]
\* convertToIPv4Blocks panicked: nothing is returned
NoPrefixSet ==
    [panic |-> TRUE, nil |-> TRUE, IPv4 |-> <<>>, IPv6 |-> <<>>, err |-> NoErr, cause |-> NoErr]

\* a plausible slip: the test for an empty list is left out
emptyASNList_never(asns) == FALSE

\* len(asns) == 0, api.go:28
emptyASNList(asns) == Len(asns) = 0

\* a plausible slip: a failed fetch yields an empty PrefixSet and no error
GetPrefixesForASNs_partial(asns, fetched) ==
    IF emptyASNList(asns) THEN {PrefixSet(<<>>, <<>>)}
    ELSE LET f == filterByASN(fetched.prefixes, asns)
         IN  {IF out.panic THEN NoPrefixSet ELSE PrefixSet(out.val, f.v6) :
                 out \in ConvertOutcomes(f.v4)}

\* fetched: what fetchWithRetrySimple returned on line 34
GetPrefixesForASNs(asns, fetched) ==
    IF emptyASNList(asns) THEN {PrefixSet(<<>>, <<>>)}
    ELSE IF fetched.err # NoErr THEN {FetchFailed(fetched.err)}
    ELSE LET f == filterByASN(fetched.prefixes, asns)
         IN  {IF out.panic THEN NoPrefixSet ELSE PrefixSet(out.val, f.v6) :
                 out \in ConvertOutcomes(f.v4)}

\* The tables and ASN lists tried: up to MaxTable entries, with disjoint,
\* nested, unmasked and IPv6 prefixes, listed and unlisted ASNs, an entry
\* without CIDR, the /14 and /18 of ASN 12880, and a failed fetch.
MaxTable == 2

EntrySamples ==
    { Entry(PrefixFrom(<<10, 0, 0, 0>>, 22), 12880),
      Entry(PrefixFrom(<<10, 0, 4, 0>>, 23), 12880),
      Entry(PrefixFrom(<<10, 0, 4, 0>>, 24), 48159),
      Entry(PrefixFrom(<<10, 0, 1, 0>>, 22), 12880),
      Entry(PrefixFrom(<<10, 0, 0, 5>>, 23), 48159),
      Entry(PrefixFrom(<<10, 0, 8, 0>>, 24), 64512),
      Entry(PrefixFrom(V6(8193, 3512), 32), 12880),
      Entry(PrefixFrom(V6(10752, 0), 29), 64512),
      Entry(NoPrefix, 12880) }

Tables == UNION {[1..n -> EntrySamples] : n \in 0..MaxTable}
ASNLists == {<<>>, <<12880>>, <<48159, 12880>>, <<48159>>}

ExampleTable ==
    <<Entry(PrefixFrom(<<2, 144, 0, 0>>, 14), 12880),
      Entry(PrefixFrom(<<5, 22, 192, 0>>, 18), 12880)>>

Fetched(t) == [prefixes |-> t, err |-> NoErr]
FetchOutcomes ==
    {Fetched(t) : t \in Tables \cup {ExampleTable}}
        \cup {[prefixes |-> <<>>, err |-> Err("all attempts failed", maxRetries)]}

PfxIdle == pfxPc = "idle" /\ asnList = <<>> /\ bgp = Fetched(<<>>) /\ prefixSet = NoPrefixSet

Resolve ==
    /\ pfxPc = "called"
    /\ pfxPc' = "done"
    /\ prefixSet' \in GetPrefixesForASNs(asnList, bgp)
    /\ UNCHANGED <<asnList, bgp, asnVars, splitVars, cmpVars, convVars, retryVars, parseVars, extVars, runVars, filtVars, wrVars>>

-----------------------------------------------------------------------------
(* extractASNsForCountry, src/fetch/asn_delegated.go:182-219, and the      *)
(* sort.Ints of line 90.  A field of a record is a sequence of tokens; in  *)
(* a numeral every digit and the sign are tokens of their own.             *)

Digit == {"0", "1", "2", "3", "4", "5", "6", "7", "8", "9"}
DigitVal(c) ==
    CASE c = "0" -> 0 [] c = "1" -> 1 [] c = "2" -> 2 [] c = "3" -> 3 [] c = "4" -> 4
      [] c = "5" -> 5 [] c = "6" -> 6 [] c = "7" -> 7 [] c = "8" -> 8 [] c = "9" -> 9

\* 10 * x + d
MulAdd10(x, d) == I64(10 * x.hi + ((10 * x.lo + d) \div Limb), (10 * x.lo + d) % Limb)
\* -x
Neg(x) == IF x.lo = 0 THEN I64(0 - x.hi, 0) ELSE I64(0 - x.hi - 1, Limb - x.lo)

RECURSIVE Magnitude(_)
Magnitude(digits) ==
    IF digits = <<>> THEN I64(0, 0)
    ELSE MulAdd10(Magnitude(SubSeq(digits, 1, Len(digits) - 1)),
                  DigitVal(digits[Len(digits)]))

RECURSIVE StripZeros(_)
StripZeros(digits) ==
    IF digits # <<>> /\ Head(digits) = "0" THEN StripZeros(Tail(digits)) ELSE digits

\* strconv.Atoi, lines 197 and 203: an optional sign, then one or more
\* decimal digits and nothing else; a value of more than 18 significant
\* digits is beyond what the two limbs hold and counts as out of range
\* (true from 2^63 on).
Atoi(s) ==
    LET signed == s # <<>> /\ s[1] \in {"+", "-"}
        digits == IF signed THEN Tail(s) ELSE s
        syntax == digits # <<>> /\ \A i \in 1..Len(digits) : digits[i] \in Digit
    IN  IF ~syntax \/ Len(StripZeros(digits)) > 18 THEN [ok |-> FALSE, val |-> I64(0, 0)]
        ELSE [ok |-> TRUE,
              val |-> IF s[1] = "-" THEN Neg(Magnitude(digits)) ELSE Magnitude(digits)]

\* the value of a two-limb integer that fits TLC's integers
IntOf(x) == x.hi * Limb + x.lo

\* a plausible slip: the range is taken to include start + count
asnsOfRecord_inclusive(record, countryCode) ==
    IF record.Type # <<"asn">> \/ record.CC # <<countryCode>> THEN <<>>
    ELSE IF record.Status = <<"reserved">> \/ record.Status = <<"available">> THEN <<>>
    ELSE IF ~Atoi(record.Start).ok THEN <<>>
    ELSE IF ~Atoi(record.Value).ok THEN <<>>
    ELSE LET startASN == Atoi(record.Start).val
             count == Atoi(record.Value).val
         IN  IF Lt(count, I64(0, 0)) THEN <<>>
             ELSE SelectSeq([i \in 1..(IntOf(count) + 1) |-> AddSmall(startASN, i - 1)],
                            isValidPublicASN)

\* the body of the loop of lines 185-216 for one record
asnsOfRecord(record, countryCode) ==
    IF record.Type # <<"asn">> \/ record.CC # <<countryCode>> THEN <<>>
    ELSE IF record.Status = <<"reserved">> \/ record.Status = <<"available">> THEN <<>>
    ELSE IF ~Atoi(record.Start).ok THEN <<>>
    ELSE IF ~Atoi(record.Value).ok THEN <<>>
    ELSE LET startASN == Atoi(record.Start).val
             count == Atoi(record.Value).val
         IN  IF Le(count, I64(0, 0)) THEN <<>>
             ELSE SelectSeq([i \in 1..IntOf(count) |-> AddSmall(startASN, i - 1)],
                            isValidPublicASN)

RECURSIVE extractASNsForCountry(_, _)
extractASNsForCountry(records, countryCode) ==
    IF records = <<>> THEN <<>>
    ELSE asnsOfRecord(Head(records), countryCode)
             \o extractASNsForCountry(Tail(records), countryCode)

\* sort.Ints
sortInts(s) ==
    LET n == Len(s)
        items == s \o <<>>
        before(j, i) == Lt(items[j], items[i]) \/ (items[j] = items[i] /\ j < i)
        rank == [i \in 1..n |-> Cardinality({j \in 1..n : before(j, i)})] \o <<>>
    IN  [k \in 1..n |-> items[CHOOSE i \in 1..n : rank[i] = k - 1]] \o <<>>

\* The records tried: lists of up to MaxRecords.
MaxRecords == 2

\* the decimal numeral of a natural number
RECURSIVE Itoa(_)
Itoa(n) ==
    LET d == <<"0", "1", "2", "3", "4", "5", "6", "7", "8", "9">>[(n % 10) + 1]
    IN  IF n < 10 THEN <<d>> ELSE Itoa(n \div 10) \o <<d>>

Rec(cc, type, start, value, status) ==
    DelegatedRecord(<<(<<"ripencc">>), <<cc>>, <<type>>, start, value,
                      (<<"20110101">>), <<status>>>>)

RecordSamples ==
    { Rec("IR", "asn", Itoa(12880), Itoa(1), "allocated"),
      Rec("IR", "asn", Itoa(64510), Itoa(3), "assigned"),
      Rec("IR", "asn", Itoa(64511), Itoa(2), "allocated"),
      Rec("IR", "asn", Itoa(12880), Itoa(1), "reserved"),
      Rec("IR", "asn", Itoa(48159), Itoa(1), "available"),
      Rec("IR", "asn", Itoa(48159), Itoa(1), "Reserved"),
      Rec("CN", "asn", Itoa(4608), Itoa(2), "allocated"),
      Rec("ir", "asn", Itoa(4610), Itoa(1), "allocated"),
      Rec("IR", "ASN", Itoa(4611), Itoa(1), "allocated"),
      Rec("IR", "ipv4", <<"2.144.0.0">>, Itoa(1024), "allocated"),
      Rec("IR", "asn", <<"x", "1", "2">>, Itoa(1), "allocated"),
      Rec("IR", "asn", <<Blank, "5">>, Itoa(1), "allocated"),
      Rec("IR", "asn", <<>>, Itoa(1), "allocated"),
      Rec("IR", "asn", Itoa(100), <<"1", "x">>, "allocated"),
      Rec("IR", "asn", Itoa(200), Itoa(0), "allocated"),
      Rec("IR", "asn", Itoa(300), <<"-">> \o Itoa(2), "allocated"),
      Rec("IR", "asn", <<"-">> \o Itoa(1), Itoa(3), "allocated"),
      Rec("IR", "asn", <<"+", "0", "7">>, <<"+">> \o Itoa(1), "allocated"),
      Rec("IR", "asn", Itoa(131071), Itoa(2), "allocated"),
      Rec("IR", "asn", Itoa(41999) \o Itoa(99999), Itoa(2), "allocated") }

RecordLists == UNION {[1..n -> RecordSamples] : n \in 0..MaxRecords}

ExtIdle ==
    /\ exPc = "idle" /\ exRecords = <<>> /\ exCC = "" /\ exAsns = <<>> /\ exSorted = <<>>

\* lines 89-90 of FetchASNsForCountry
Extract ==
    /\ exPc = "input"
    /\ exPc' = "done"
    /\ exAsns' = extractASNsForCountry(exRecords, exCC)
    /\ exSorted' = sortInts(extractASNsForCountry(exRecords, exCC))
    /\ UNCHANGED <<exRecords, exCC, asnVars, splitVars, cmpVars, convVars, retryVars,
                   parseVars, pfxVars, runVars, filtVars, wrVars>>

-----------------------------------------------------------------------------
(* The resolution of one country: fetchAndSavePrefixes, src/main.go:114-140 *)
(* with GetASNsForCountry and FetchASNsForCountry (api.go:21-24,            *)
(* asn_delegated.go:76-94), fetchDelegatedRecords (114-126),                *)
(* GetPrefixesForASNs (api.go:27-46) and SavePrefixesToFiles (114-146).     *)

\* type RIR, lines 15-18, and the registries of lines 22-29
RIR(n, u) == [Name |-> n, URL |-> u]
RIPE_NCC == RIR("RIPE NCC", "https://ftp.ripe.net/ripe/stats/delegated-ripencc-latest")
APNIC == RIR("APNIC", "https://ftp.apnic.net/stats/apnic/delegated-apnic-latest")
NoRIR == RIR("", "")

\* var CountryToRIR, lines 45-48
CountryToRIR == [c \in {"IR", "CN"} |-> IF c = "IR" THEN RIPE_NCC ELSE APNIC]

\* a plausible slip: the second result of the map lookup is not tested
lookupRIR_unchecked(countryCode) ==
    [exists |-> TRUE,
     rir |-> IF countryCode \in DOMAIN CountryToRIR THEN CountryToRIR[countryCode] ELSE NoRIR]

\* rir, exists := CountryToRIR[countryCode], line 77
lookupRIR(countryCode) ==
    IF countryCode \in DOMAIN CountryToRIR
    THEN [exists |-> TRUE, rir |-> CountryToRIR[countryCode]]
    ELSE [exists |-> FALSE, rir |-> NoRIR]

\* fetchDelegatedRecords, lines 114-126, on the exchange r
fetchDelegatedRecords(r) ==
    IF r.kind = "connErr" THEN [records |-> <<>>, err |-> Err("HTTP request failed", 0)]
    ELSE IF r.code # 200
    THEN [records |-> <<>>, err |-> Err("HTTP request failed with status", r.code)]
    ELSE parseDelegatedFile(File(r.lines, r.end))

\* what FetchASNsForCountry returns: ([]int, error); nil: the list is nil
ASNs(list) == [asns |-> list, nil |-> FALSE, err |-> NoErr, cause |-> NoErr]
NoASNs(e, c) == [asns |-> <<>>, nil |-> TRUE, err |-> e, cause |-> c]

\* a plausible slip: the error of the registry fetch is dropped
asnsFromRecords_ignoreErr(fetched, countryCode) ==
    ASNs(sortInts(extractASNsForCountry(fetched.records, countryCode)))

\* lines 85-93 of FetchASNsForCountry, on what fetchDelegatedRecords returned
asnsFromRecords(fetched, countryCode) ==
    IF fetched.err # NoErr
    THEN NoASNs(Err("failed to fetch delegated records", 0), fetched.err)
    ELSE ASNs(sortInts(extractASNsForCountry(fetched.records, countryCode)))

\* the []int handed to GetPrefixesForASNs (ASNs of the tables tried fit
\* TLC's integers)
IntsOf(list) == [i \in 1..Len(list) |-> IntOf(list[i])]

\* strings.ToLower on the country codes tried, line 115
ToLower(c) ==
    CASE c = "IR" -> "ir" [] c = "CN" -> "cn" [] c = "RU" -> "ru" [] c = "XX" -> "xx"
      [] OTHER -> c

\* writePrefixesToFile, lines 132-146.  fault: what goes wrong, nothing
\* ("none"), os.Create ("create") or the WriteString of line at ("write").
\* A line of the file is represented by the prefix it prints.
Fault(k, n) == [kind |-> k, at |-> n]
Faults(prefixes) ==
    {Fault("none", 0), Fault("create", 0)} \cup {Fault("write", k) : k \in 1..Len(prefixes)}

writePrefixesToFile(filename, prefixes, fault) ==
    IF fault.kind = "create" THEN [files |-> {}, err |-> Err("failed to create file", 0)]
    ELSE IF fault.kind = "write"
    THEN [files |-> {[name |-> filename, lines |-> SubSeq(prefixes, 1, fault.at - 1)]},
          err |-> Err("failed to write prefix", 0)]
    ELSE [files |-> {[name |-> filename, lines |-> prefixes]}, err |-> NoErr]

\* SavePrefixesToFiles, lines 114-130
SavePrefixesToFiles(cc, prefixes, fault4, fault6) ==
    LET v4 == writePrefixesToFile(<<ToLower(cc), "_prefixes_v4.txt">>, prefixes.IPv4, fault4)
        v6 == writePrefixesToFile(<<ToLower(cc), "_prefixes_v6.txt">>, prefixes.IPv6, fault6)
    IN  IF v4.err # NoErr
        THEN [files |-> v4.files, err |-> Err("failed to save IPv4 prefixes", 0)]
        ELSE IF v6.err # NoErr
        THEN [files |-> v4.files \cup v6.files, err |-> Err("failed to save IPv6 prefixes", 0)]
        ELSE [files |-> v4.files \cup v6.files, err |-> NoErr]

\* The countries, registry files and BGP tables tried.
Countries == {"IR", "CN", "RU", "XX", "ir"}

RECURSIVE JoinPipes(_)
JoinPipes(fs) ==
    IF Len(fs) = 1 THEN fs[1] ELSE fs[1] \o <<Pipe>> \o JoinPipes(Tail(fs))

RegLine(registry, cc, start, count, status) ==
    JoinPipes(<<(<<registry>>), <<cc>>, (<<"asn">>), Itoa(start), Itoa(count),
                (<<"20110101">>), <<status>>>>)

RegistryBodies ==
    { <<>>,
      <<RegLine("ripencc", "IR", 12880, 1, "allocated")>>,
      <<(<<Hash, "delegated">>),
        RegLine("ripencc", "IR", 12880, 1, "allocated"),
        RegLine("ripencc", "RU", 8359, 1, "allocated"),
        RegLine("ripencc", "IR", 12880, 2, "assigned")>>,
      <<RegLine("apnic", "CN", 4608, 2, "allocated"),
        RegLine("apnic", "CN", 64512, 1, "allocated")>>,
      <<RegLine("apnic", "CN", 4808, 1, "reserved")>> }

RegistryResponses ==
    {Response("connErr", 0, <<>>, "eof"), Response("http", 404, <<>>, "eof")}
    \cup {Response("http", 200, l, "eof") : l \in RegistryBodies}
    \cup {Response("http", 200, <<RegLine("ripencc", "IR", 12880, 1, "allocated")>>, e) :
             e \in {"readErr", "tooLong"}}

TableLine(p, a) == BGPLine("object", Member("ok", p), Member("ok", a))

TableBodies ==
    { <<>>,
      <<TableLine(PrefixFrom(<<10, 0, 0, 0>>, 23), 12880),
        TableLine(PrefixFrom(V6(8193, 3512), 32), 12880),
        TableLine(PrefixFrom(<<10, 0, 8, 0>>, 24), 4608),
        GarbageLine>>,
      <<TableLine(PrefixFrom(<<10, 0, 9, 0>>, 24), 64512)>> }

TableResponses ==
    {Response("connErr", 0, <<>>, "eof"), Response("http", 500, <<>>, "eof")}
    \cup {Response("http", 200, l, "eof") : l \in TableBodies}
    \cup {Response("http", 200, <<TableLine(PrefixFrom(<<10, 0, 0, 0>>, 23), 12880)>>,
                   "readErr")}

RunIdle ==
    /\ runPc = "idle" /\ country = "" /\ rir = NoRIR /\ regRequests = <<>>
    /\ regResp = NoResponse /\ asnsRet = NoASNs(NoErr, NoErr) /\ files = {} /\ runErr = NoErr

\* main.go:118 into FetchASNsForCountry, lines 77-82: the registry lookup
Lookup ==
    /\ runPc = "start"
    /\ IF lookupRIR(country).exists
       THEN /\ rir' = lookupRIR(country).rir
            /\ runPc' = "request"
            /\ UNCHANGED asnsRet
       ELSE /\ asnsRet' = NoASNs(Err("no RIR mapping found for country code", 0), NoErr)
            /\ runPc' = "resolved"
            /\ UNCHANGED rir
    /\ UNCHANGED <<country, regRequests, regResp, files, runErr,
                   asnVars, splitVars, cmpVars, convVars, retryVars, parseVars, pfxVars, extVars, filtVars, wrVars>>

\* lines 84-93: the request to the registry (exchange r), the parse, the
\* extraction and the sort
RegistryFetch(r) ==
    /\ runPc = "request"
    /\ regRequests' = Append(regRequests, rir.URL)
    /\ regResp' = r
    /\ asnsRet' = asnsFromRecords(fetchDelegatedRecords(r), country)
    /\ runPc' = "resolved"
    /\ UNCHANGED <<country, rir, files, runErr,
                   asnVars, splitVars, cmpVars, convVars, retryVars, parseVars, pfxVars, extVars, filtVars, wrVars>>

\* main.go:119-126 and api.go:27-34: the error test, the call of
\* GetPrefixesForASNs and its entry up to the call of fetchWithRetrySimple
StartPrefixes ==
    /\ runPc = "resolved"
    /\ IF asnsRet.err # NoErr
       THEN /\ runErr' = Err("failed to get ASNs", 0)
            /\ runPc' = "failed"
            /\ UNCHANGED <<retryVars, pfxVars, filtVars, wrVars>>
       ELSE /\ asnList' = IntsOf(asnsRet.asns)
            /\ UNCHANGED <<runErr, bgp>>
            /\ IF emptyASNList(asnsRet.asns)
               THEN /\ prefixSet' \in GetPrefixesForASNs(asnsRet.asns, bgp)
                    /\ pfxPc' = "done"
                    /\ runPc' = "returned"
                    /\ UNCHANGED retryVars
               ELSE /\ retryPc' = "call"
                    /\ attempt' = 1
                    /\ pfxPc' = "fetching"
                    /\ runPc' = "bgp"
                    /\ UNCHANGED <<prefixSet, lastErr, resp, ret, delays, calls, dropped>>
    /\ UNCHANGED <<country, rir, regRequests, regResp, asnsRet, files,
                   asnVars, splitVars, cmpVars, convVars, parseVars, extVars, filtVars, wrVars>>

\* api.go:35-45: fetchWithRetrySimple has returned
FinishPrefixes ==
    /\ runPc = "bgp"
    /\ retryPc = "done"
    /\ bgp' = [prefixes |-> ret.prefixes, err |-> ret.err]
    /\ prefixSet' \in GetPrefixesForASNs(asnList, [prefixes |-> ret.prefixes, err |-> ret.err])
    /\ pfxPc' = "done"
    /\ runPc' = "returned"
    /\ UNCHANGED <<asnList, country, rir, regRequests, regResp, asnsRet, files, runErr,
                   asnVars, splitVars, cmpVars, convVars, retryVars, parseVars, extVars, filtVars, wrVars>>

\* main.go:127-139: the error test and SavePrefixesToFiles; a panic of
\* convertToIPv4Blocks ends the program
Save ==
    /\ runPc = "returned"
    /\ IF prefixSet.panic
       THEN runPc' = "crashed" /\ UNCHANGED <<files, runErr>>
       ELSE IF prefixSet.err # NoErr
       THEN runPc' = "failed" /\ runErr' = Err("failed to get prefixes", 0) /\ UNCHANGED files
       ELSE \E f4 \in Faults(prefixSet.IPv4), f6 \in Faults(prefixSet.IPv6) :
                LET out == SavePrefixesToFiles(country, prefixSet, f4, f6)
                IN  /\ files' = out.files
                    /\ IF out.err # NoErr
                       THEN runPc' = "failed" /\ runErr' = Err("failed to save prefixes", 0)
                       ELSE runPc' = "done" /\ UNCHANGED runErr
    /\ UNCHANGED <<country, rir, regRequests, regResp, asnsRet,
                   asnVars, splitVars, cmpVars, convVars, retryVars, parseVars, pfxVars, extVars, filtVars, wrVars>>

-----------------------------------------------------------------------------
(* filterByASN, src/unnamed/part_002:91-115, called on its own.            *)

NoBuckets == [v4 |-> <<>>, v6 |-> <<>>]

FiltIdle ==
    filtPc = "idle" /\ filtPrefixes = <<>> /\ filtAsns = <<>> /\ filtOut = NoBuckets

\* ipv4, ipv6 := filterByASN(bgpPrefixes, asns), api.go:39
Filter ==
    /\ filtPc = "input"
    /\ filtPc' = "done"
    /\ filtOut' = filterByASN(filtPrefixes, filtAsns)
    /\ UNCHANGED <<filtPrefixes, filtAsns, asnVars, splitVars, cmpVars, convVars, retryVars,
                   parseVars, pfxVars, extVars, runVars, wrVars>>

-----------------------------------------------------------------------------
(* fetchPrefixesForCountry, src/unnamed/part_002:189-221, with its two     *)
(* writer goroutines (writeV4Prefixes, writeV6Prefixes, writeToFile,       *)
(* lines 345-400).  This copy of the package has its own filterByASN and   *)
(* splitToBlocks; its fetchWithRetry (lines 224-242) is the loop modelled  *)
(* by Attempt, Backoff and GiveUp, and its fetchPrefixes (lines 245-279)   *)
(* yields what fetchPrefixesSimple yields (a blank line fails to decode    *)
(* and is skipped).                                                        *)

\* type Config, lines 152-157; ASNs is what cfg.ASNFunc() returns
Config(c, a, f4, f6) == [Country |-> c, ASNs |-> a, OutputFileV4 |-> f4, OutputFileV6 |-> f6]

\* the Config of FetchIR, lines 167-175
FetchIR(asns) == Config("IR", asns, "ir_prefixes_v4.txt", "ir_prefixes_v6.txt")

\* the Config of FetchCN, lines 178-186
FetchCN(asns) == Config("CN", asns, "cn_prefixes_v4.txt", "cn_prefixes_v6.txt")

\* filterByASN, lines 282-302: the buckets in table order
filterByASNOld(prefixes, asns) ==
    LET asnSet == {asns[i] : i \in 1..Len(asns)}
        kept == SelectSeq(prefixes, LAMBDA e : e.ASN \in asnSet)
    IN  [v4 |-> CIDRsOf(SelectSeq(kept, LAMBDA e : Is4(e.CIDR.addr))),
         v6 |-> CIDRsOf(SelectSeq(kept, LAMBDA e : Is6(e.CIDR.addr)))]

\* splitToBlocks, lines 305-321: a /24 is returned as it is; for a longer
\* prefix 1 << (24 - prefix.Bits()) has a negative shift count, which
\* panics; a shorter one is walked from its address as written
splitToBlocksOld(prefix) ==
    IF prefix.bits = 24 THEN Returned(<<prefix>>)
    ELSE IF prefix.bits > 24 THEN Panicked
    ELSE splitLarger(prefix)

\* the loop of lines 351-356, block after block
RECURSIVE BlocksOld(_)
BlocksOld(prefixes) ==
    IF prefixes = <<>> THEN <<>>
    ELSE splitToBlocksOld(Head(prefixes)).val \o BlocksOld(Tail(prefixes))

\* what a writer does before writeToFile: "skip" (nothing to write, no
\* file), "panic", or the sorted list handed to writeToFile
Plan(k, l) == [kind |-> k, list |-> l]

\* writeV4Prefixes, lines 345-366, up to the call of writeToFile.  The keys
\* of uniqueBlocks are distinct and prefixCompare orders distinct prefixes
\* strictly, so the sorted list does not depend on the map's order.
writeV4Prefixes(prefixes) ==
    IF Len(prefixes) = 0 THEN Plan("skip", <<>>)
    ELSE IF \E i \in 1..Len(prefixes) : splitToBlocksOld(prefixes[i]).panic
    THEN Plan("panic", <<>>)
    ELSE Plan("write", SortFunc(FirstOccurrences(BlocksOld(prefixes))))

\* writeV6Prefixes, lines 368-379, up to the call of writeToFile
writeV6Prefixes(prefixes) ==
    IF Len(prefixes) = 0 THEN Plan("skip", <<>>)
    ELSE Plan("write", SortFunc(prefixes))

\* the two goroutines of lines 205-217
Writers == {"v4", "v6"}

OtherWriter(t) == IF t = "v4" THEN "v6" ELSE "v4"

OutputFile(c, t) == IF t = "v4" THEN c.OutputFileV4 ELSE c.OutputFileV6

PlanOf(t, b) == IF t = "v4" THEN writeV4Prefixes(b.v4) ELSE writeV6Prefixes(b.v6)

FileNames ==
    {"ir_prefixes_v4.txt", "ir_prefixes_v6.txt", "cn_prefixes_v4.txt", "cn_prefixes_v6.txt"}

\* a file of the working directory: absent, or its lines
NoFile == [exists |-> FALSE, lines |-> <<>>]
FileOf(l) == [exists |-> TRUE, lines |-> l]

\* bufio.NewWriter(file), line 389: the buffer takes BufLines lines before a
\* WriteString has to flush it
BufLines == 2

\* the lines of writer t still in its buffer
Buffered(list, pos, n) == SubSeq(list, pos - n + 1, pos)

\* The tables served to this copy and the lists its ASNFunc returns.
WriterBodies ==
    { <<>>,
      <<TableLine(PrefixFrom(<<10, 0, 0, 0>>, 22), 12880),
        TableLine(PrefixFrom(V6(8193, 3512), 32), 12880),
        TableLine(PrefixFrom(V6(10752, 0), 29), 12880),
        TableLine(PrefixFrom(V6(8193, 3512), 32), 12880),
        TableLine(PrefixFrom(<<10, 0, 8, 0>>, 24), 4608)>>,
      <<TableLine(PrefixFrom(<<10, 0, 0, 1>>, 32), 12880),
        TableLine(PrefixFrom(V6(8193, 3512), 32), 12880),
        TableLine(PrefixFrom(V6(10752, 0), 29), 12880),
        TableLine(PrefixFrom(V6(8193, 3513), 48), 12880)>>,
      <<TableLine(PrefixFrom(V6(8193, 3512), 32), 12880)>>,
      <<TableLine(PrefixFrom(<<10, 0, 1, 7>>, 24), 12880),
        TableLine(PrefixFrom(<<10, 0, 1, 7>>, 24), 12880)>> }

WriterResponses ==
    {Response("connErr", 0, <<>>, "eof")}
    \cup {Response("http", 200, l, "eof") : l \in WriterBodies}

WriterConfigs == {FetchIR(<<12880>>), FetchCN(<<4608, 12880>>)}

NoConfig == Config("", <<>>, "", "")

WrIdle ==
    /\ wrPc = "idle" /\ cfg = NoConfig /\ buckets = NoBuckets /\ wg = 0
    /\ tpc = [t \in Writers |-> "idle"] /\ tlist = [t \in Writers |-> <<>>]
    /\ tpos = [t \in Writers |-> 0] /\ tbuf = [t \in Writers |-> 0]
    /\ terr = [t \in Writers |-> NoErr] /\ tflush = [t \in Writers |-> NoErr]
    /\ disk = [f \in FileNames |-> NoFile] /\ crashed = FALSE

\* Lines 194-203 after fetchWithRetry has returned: on an error the function
\* logs and returns; otherwise filterByASN, wg.Add(2) and the two go
\* statements.
Spawn ==
    /\ wrPc = "fetch"
    /\ retryPc = "done"
    /\ IF ret.err # NoErr
       THEN /\ wrPc' = "failed"
            /\ UNCHANGED <<buckets, wg, tpc>>
       ELSE /\ buckets' = filterByASNOld(ret.prefixes, cfg.ASNs)
            /\ wg' = 2
            /\ tpc' = [t \in Writers |-> "start"]
            /\ wrPc' = "wait"
    /\ UNCHANGED <<cfg, tlist, tpos, tbuf, terr, tflush, disk, crashed, asnVars, splitVars, cmpVars,
                   convVars, retryVars, parseVars, pfxVars, extVars, runVars, filtVars>>

\* Goroutine t from its start to the call of writeToFile (lines 346-363 and
\* 369-376).  With nothing to write it returns nil and the deferred
\* wg.Done() runs.  A panic runs the deferred wg.Done() as well, and then
\* ends the process (Die).
Enter(t) ==
    /\ ~crashed
    /\ tpc[t] = "start"
    /\ LET plan == PlanOf(t, buckets)
       IN  CASE plan.kind = "skip" ->
                    /\ tpc' = [tpc EXCEPT ![t] = "done"]
                    /\ wg' = wg - 1
                    /\ UNCHANGED tlist
              [] plan.kind = "panic" ->
                    /\ tpc' = [tpc EXCEPT ![t] = "panicked"]
                    /\ wg' = wg - 1
                    /\ UNCHANGED tlist
              [] plan.kind = "write" ->
                    /\ tpc' = [tpc EXCEPT ![t] = "create"]
                    /\ tlist' = [tlist EXCEPT ![t] = plan.list]
                    /\ UNCHANGED wg
    /\ UNCHANGED <<wrPc, cfg, buckets, tpos, tbuf, terr, tflush, disk, crashed, asnVars, splitVars,
                   cmpVars, convVars, retryVars, parseVars, pfxVars, extVars, runVars, filtVars>>

\* os.Create(filename), lines 383-387: the file is created or truncated; on
\* an error writeToFile returns it, the goroutine logs it and wg.Done() runs
Create(t, ok) ==
    /\ ~crashed
    /\ tpc[t] = "create"
    /\ IF ok
       THEN /\ disk' = [disk EXCEPT ![OutputFile(cfg, t)] = FileOf(<<>>)]
            /\ tpc' = [tpc EXCEPT ![t] = "write"]
            /\ UNCHANGED <<terr, wg>>
       ELSE /\ terr' = [terr EXCEPT ![t] = Err("create file", 0)]
            /\ tpc' = [tpc EXCEPT ![t] = "done"]
            /\ wg' = wg - 1
            /\ UNCHANGED disk
    /\ UNCHANGED <<wrPc, cfg, buckets, tlist, tpos, tbuf, tflush, crashed, asnVars, splitVars,
                   cmpVars, convVars, retryVars, parseVars, pfxVars, extVars, runVars, filtVars>>

\* One writer.WriteString, lines 392-396.  A line that fits goes into the
\* buffer; otherwise the buffer is written to the file first.  When that
\* write fails WriteString returns the error and so does writeToFile: the
\* deferred Flush writes nothing (the writer keeps its error), the file is
\* closed, the goroutine logs the error and wg.Done() runs.
WriteString(t, ok) ==
    /\ ~crashed
    /\ tpc[t] = "write"
    /\ tpos[t] < Len(tlist[t])
    /\ IF tbuf[t] < BufLines
       THEN /\ ok
            /\ tbuf' = [tbuf EXCEPT ![t] = @ + 1]
            /\ tpos' = [tpos EXCEPT ![t] = @ + 1]
            /\ UNCHANGED <<disk, terr, tpc, wg>>
       ELSE IF ok
       THEN /\ disk' = [disk EXCEPT ![OutputFile(cfg, t)] =
                            FileOf(@.lines \o Buffered(tlist[t], tpos[t], tbuf[t]))]
            /\ tbuf' = [tbuf EXCEPT ![t] = 1]
            /\ tpos' = [tpos EXCEPT ![t] = @ + 1]
            /\ UNCHANGED <<terr, tpc, wg>>
       ELSE /\ terr' = [terr EXCEPT ![t] = Err("write failed", 0)]
            /\ tpc' = [tpc EXCEPT ![t] = "done"]
            /\ wg' = wg - 1
            /\ UNCHANGED <<disk, tbuf, tpos>>
    /\ UNCHANGED <<wrPc, cfg, buckets, tlist, tflush, crashed, asnVars, splitVars, cmpVars,
                   convVars, retryVars, parseVars, pfxVars, extVars, runVars, filtVars>>

\* The loop is over, lines 398-399: writeToFile returns nil; the deferred
\* writer.Flush() writes the buffer, and its error, if any, is dropped; the
\* file is closed and wg.Done() runs.
Return(t, ok) ==
    /\ ~crashed
    /\ tpc[t] = "write"
    /\ tpos[t] = Len(tlist[t])
    /\ IF ok
       THEN /\ disk' = [disk EXCEPT ![OutputFile(cfg, t)] =
                            FileOf(@.lines \o Buffered(tlist[t], tpos[t], tbuf[t]))]
            /\ UNCHANGED tflush
       ELSE /\ tflush' = [tflush EXCEPT ![t] = Err("flush failed", 0)]
            /\ UNCHANGED disk
    /\ tbuf' = [tbuf EXCEPT ![t] = 0]
    /\ tpc' = [tpc EXCEPT ![t] = "done"]
    /\ wg' = wg - 1
    /\ UNCHANGED <<wrPc, cfg, buckets, tlist, tpos, terr, crashed, asnVars, splitVars, cmpVars,
                   convVars, retryVars, parseVars, pfxVars, extVars, runVars, filtVars>>

\* A panic no goroutine recovers ends the process: every goroutine stops
\* where it is and no buffer is flushed.
Die ==
    /\ ~crashed
    /\ \E t \in Writers : tpc[t] = "panicked"
    /\ crashed' = TRUE
    /\ UNCHANGED <<wrPc, cfg, buckets, wg, tpc, tlist, tpos, tbuf, terr, tflush, disk, asnVars,
                   splitVars, cmpVars, convVars, retryVars, parseVars, pfxVars, extVars, runVars,
                   filtVars>>

\* wg.Wait() returns and "fetch complete" is logged, lines 219-220
Complete ==
    /\ ~crashed
    /\ wrPc = "wait"
    /\ wg = 0
    /\ wrPc' = "complete"
    /\ UNCHANGED <<cfg, buckets, wg, tpc, tlist, tpos, tbuf, terr, tflush, disk, crashed, asnVars,
                   splitVars, cmpVars, convVars, retryVars, parseVars, pfxVars, extVars, runVars,
                   filtVars>>

-----------------------------------------------------------------------------
(* Specifications.                                                         *)

InitASN ==
    /\ asnPc = "input" /\ asn \in ASNSamples /\ asnResult = FALSE
    /\ SplitIdle /\ CmpIdle /\ ConvIdle /\ RetryIdle /\ ParseIdle /\ PfxIdle /\ ExtIdle /\ RunIdle /\ FiltIdle /\ WrIdle

NextASN == CheckASN

SpecASN == InitASN /\ [][NextASN]_vars

InitSplit ==
    /\ splitPc = "input" /\ splitIn \in SplitSamples /\ splitOut = Panicked
    /\ ASNIdle /\ CmpIdle /\ ConvIdle /\ RetryIdle /\ ParseIdle /\ PfxIdle /\ ExtIdle /\ RunIdle /\ FiltIdle /\ WrIdle

NextSplit == Split

SpecSplit == InitSplit /\ [][NextSplit]_vars

InitCmp ==
    /\ cmpPc = "input" /\ cmpOut = <<>> /\ sortOut = <<>>
    /\ cmpIn \in [1..3 -> CmpSamples]
    /\ ASNIdle /\ SplitIdle /\ ConvIdle /\ RetryIdle /\ ParseIdle /\ PfxIdle /\ ExtIdle /\ RunIdle /\ FiltIdle /\ WrIdle

NextCmp == Compare \/ SortTwice

SpecCmp == InitCmp /\ [][NextCmp]_vars

InitConv ==
    /\ convPc = "input" /\ convOut = Panicked /\ convOut2 = Panicked
    /\ convIn \in ConvLists
    /\ ASNIdle /\ SplitIdle /\ CmpIdle /\ RetryIdle /\ ParseIdle /\ PfxIdle /\ ExtIdle /\ RunIdle /\ FiltIdle /\ WrIdle

NextConv == Convert \/ ConvertAgain

SpecConv == InitConv /\ [][NextConv]_vars

InitRetry ==
    /\ retryPc = "call" /\ attempt = 1 /\ lastErr = NoLastErr /\ resp = NoResponse
    /\ ret = NoReturn /\ delays = <<>> /\ calls = 0 /\ dropped = {}
    /\ ASNIdle /\ SplitIdle /\ CmpIdle /\ ConvIdle /\ ParseIdle /\ PfxIdle /\ ExtIdle /\ RunIdle /\ FiltIdle /\ WrIdle

NextRetry == (\E r \in Responses : Attempt(r)) \/ Backoff \/ GiveUp

SpecRetry == InitRetry /\ [][NextRetry]_vars

InitParse ==
    /\ parsePc = "input" /\ stream \in Files /\ parsed = NoRecords
    /\ ASNIdle /\ SplitIdle /\ CmpIdle /\ ConvIdle /\ RetryIdle /\ PfxIdle /\ ExtIdle /\ RunIdle /\ FiltIdle /\ WrIdle

NextParse == Parse

SpecParse == InitParse /\ [][NextParse]_vars

InitPfx ==
    /\ pfxPc = "called" /\ prefixSet = NoPrefixSet
    /\ asnList \in ASNLists
    /\ bgp \in FetchOutcomes
    /\ bgp.prefixes = ExampleTable => asnList = <<12880>>
    /\ ASNIdle /\ SplitIdle /\ CmpIdle /\ ConvIdle /\ RetryIdle /\ ParseIdle /\ ExtIdle /\ RunIdle /\ FiltIdle /\ WrIdle

NextPfx == Resolve

SpecPfx == InitPfx /\ [][NextPfx]_vars

InitExt ==
    /\ exPc = "input" /\ exAsns = <<>> /\ exSorted = <<>>
    /\ exRecords \in RecordLists
    /\ exCC \in {"IR", "CN"}
    /\ ASNIdle /\ SplitIdle /\ CmpIdle /\ ConvIdle /\ RetryIdle /\ ParseIdle /\ PfxIdle /\ RunIdle /\ FiltIdle /\ WrIdle

NextExt == Extract

SpecExt == InitExt /\ [][NextExt]_vars

InitRun ==
    /\ runPc = "start" /\ country \in Countries /\ rir = NoRIR /\ regRequests = <<>>
    /\ regResp = NoResponse /\ asnsRet = NoASNs(NoErr, NoErr) /\ files = {} /\ runErr = NoErr
    /\ ASNIdle /\ SplitIdle /\ CmpIdle /\ ConvIdle /\ RetryIdle /\ ParseIdle /\ PfxIdle /\ ExtIdle /\ FiltIdle /\ WrIdle

NextRun ==
    \/ Lookup
    \/ \E r \in RegistryResponses : RegistryFetch(r)
    \/ StartPrefixes
    \/ \E r \in TableResponses : Attempt(r)
    \/ Backoff
    \/ GiveUp
    \/ FinishPrefixes
    \/ Save

SpecRun == InitRun /\ [][NextRun]_vars

InitFilt ==
    /\ filtPc = "input" /\ filtOut = NoBuckets
    /\ filtPrefixes \in Tables
    /\ filtAsns \in ASNLists
    /\ ASNIdle /\ SplitIdle /\ CmpIdle /\ ConvIdle /\ RetryIdle /\ ParseIdle /\ PfxIdle /\ ExtIdle /\ WrIdle
    /\ RunIdle

NextFilt == Filter

SpecFilt == InitFilt /\ [][NextFilt]_vars

InitWr ==
    /\ wrPc = "fetch" /\ cfg \in WriterConfigs /\ buckets = NoBuckets /\ wg = 0
    /\ tpc = [t \in Writers |-> "idle"] /\ tlist = [t \in Writers |-> <<>>]
    /\ tpos = [t \in Writers |-> 0] /\ tbuf = [t \in Writers |-> 0]
    /\ terr = [t \in Writers |-> NoErr] /\ tflush = [t \in Writers |-> NoErr]
    /\ disk = [f \in FileNames |-> NoFile] /\ crashed = FALSE
    /\ retryPc = "call" /\ attempt = 1 /\ lastErr = NoLastErr /\ resp = NoResponse
    /\ ret = NoReturn /\ delays = <<>> /\ calls = 0 /\ dropped = {}
    /\ ASNIdle /\ SplitIdle /\ CmpIdle /\ ConvIdle /\ ParseIdle /\ PfxIdle /\ ExtIdle /\ RunIdle /\ FiltIdle

NextWr ==
    \/ \E r \in WriterResponses : Attempt(r)
    \/ Backoff
    \/ GiveUp
    \/ Spawn
    \/ \E t \in Writers : Enter(t)
    \/ \E t \in Writers, ok \in BOOLEAN : Create(t, ok)
    \/ \E t \in Writers, ok \in BOOLEAN : WriteString(t, ok)
    \/ \E t \in Writers, ok \in BOOLEAN : Return(t, ok)
    \/ Die
    \/ Complete

SpecWr == InitWr /\ [][NextWr]_vars

-----------------------------------------------------------------------------
(* C1: for every integer a, isValidPublicASN(a) is true exactly when a is  *)
(* in [1, 64511] or in [131072, 4199999999].                               *)

InClosed(a, low, high) == Le(low, a) /\ Le(a, high)

C1_PublicRanges ==
    asnPc = "done" =>
        (asnResult <=> (\/ InClosed(asn, I64(0, 1), I64(0, 64511))
                        \/ InClosed(asn, I64(2, 0), I64(64086, 59903))))

C1_Witness ==
    /\ asnPc = "done"
    /\ asn = I64(64086, 59903)
    /\ asnResult = TRUE

-----------------------------------------------------------------------------
(* C2: for every IPv4 prefix p of length L < 24, splitToBlocks(p) returns  *)
(* exactly 2^(24-L) blocks, each of length 24, pairwise distinct,          *)
(* consecutive (each address the previous one plus 256), all inside p's    *)
(* address range and covering that range exactly.                          *)

\* the number of the /24 network an address lies in
Net24(a) == a[1] * 65536 + a[2] * 256 + a[3]

C2_SplitCoversPrefix ==
    (splitPc = "done" /\ splitIn.bits < 24) =>
        /\ ~splitOut.panic
        /\ LET blocks == splitOut.val
               n == Pow2(24 - splitIn.bits)
               first == (Net24(splitIn.addr) \div n) * n
           IN  /\ Len(blocks) = n
               /\ \A i \in 1..Len(blocks) : blocks[i].bits = 24
               /\ \A i, j \in 1..Len(blocks) : i # j => blocks[i] # blocks[j]
               /\ \A i \in 1..(Len(blocks) - 1) :
                      ipToInt(blocks[i + 1].addr) = AddSmall(ipToInt(blocks[i].addr), 256)
               /\ \A i \in 1..Len(blocks) : Net24(blocks[i].addr) \div n = first \div n
               /\ {Net24(blocks[i].addr) : i \in 1..Len(blocks)} = first..(first + n - 1)

-----------------------------------------------------------------------------
(* C3: for every IPv4 prefix p of length 24..32, splitToBlocks(p) returns  *)
(* exactly one prefix, of length 24, with p's first three octets and a     *)
(* zero last octet.                                                        *)

C3_AlignTo24 ==
    (splitPc = "done" /\ splitIn.bits >= 24) =>
        /\ ~splitOut.panic
        /\ Len(splitOut.val) = 1
        /\ splitOut.val[1].bits = 24
        /\ \A k \in 1..3 : splitOut.val[1].addr[k] = splitIn.addr[k]
        /\ splitOut.val[1].addr[4] = 0

C3_Witness ==
    /\ splitPc = "done"
    /\ splitIn = PrefixFrom(<<10, 255, 192, 5>>, 28)
    /\ splitOut = Returned(<<PrefixFrom(<<10, 255, 192, 0>>, 24)>>)

-----------------------------------------------------------------------------
(* C4: prefixCompare orders prefixes by family (IPv4 before IPv6), then by *)
(* length ascending, then by numeric address ascending; it is a total      *)
(* order (transitive, sign(compare(a,b)) = -sign(compare(b,a)), and 0 only *)
(* for the same prefix); sorting a sorted list leaves it unchanged.        *)

\* the address as a number in base 65536, most significant digit first:
\* compared digit by digit this is the numeric order
AddrParts(a) == [k \in 1..(Len(a) \div 2) |-> a[2 * k - 1] * 256 + a[2 * k]]

\* the claimed key: family, length, address
KeyBefore(a, b) ==
    LET fa == BitLen(a.addr)
        fb == BitLen(b.addr)
        pa == AddrParts(a.addr)
        pb == AddrParts(b.addr)
    IN  \/ fa < fb
        \/ fa = fb /\ a.bits < b.bits
        \/ fa = fb /\ a.bits = b.bits
           /\ \E k \in 1..Len(pa) : pa[k] < pb[k] /\ \A j \in 1..(k - 1) : pa[j] = pb[j]

IsSortedByKey(s) == \A i \in 1..(Len(s) - 1) : s[i] = s[i + 1] \/ KeyBefore(s[i], s[i + 1])

SameElements(s, t) ==
    /\ Len(s) = Len(t)
    /\ \A x \in {s[i] : i \in 1..Len(s)} :
           Cardinality({i \in 1..Len(s) : s[i] = x}) = Cardinality({i \in 1..Len(t) : t[i] = x})

C4_TotalOrder ==
    /\ cmpPc \in {"compared", "sorted"} =>
           \A i, j, k \in 1..3 :
               /\ cmpOut[i][j] \in {-1, 0, 1}
               /\ (cmpOut[i][j] < 0) <=> KeyBefore(cmpIn[i], cmpIn[j])
               /\ cmpOut[i][j] = -cmpOut[j][i]
               /\ (cmpOut[i][j] = 0) <=> (cmpIn[i] = cmpIn[j])
               /\ (cmpOut[i][j] <= 0 /\ cmpOut[j][k] <= 0) => cmpOut[i][k] <= 0
               /\ (cmpOut[i][j] < 0 /\ cmpOut[j][k] <= 0) => cmpOut[i][k] < 0
    /\ cmpPc = "sorted" =>
           /\ IsSortedByKey(sortOut[1])
           /\ SameElements(sortOut[1], cmpIn)
           /\ sortOut[2] = sortOut[1]

\* an IPv6 /32, an IPv4 /24 and an IPv4 /8 given in descending order
C4_Witness ==
    /\ cmpPc = "sorted"
    /\ cmpIn = <<PrefixFrom(V6(8193, 3512), 32), PrefixFrom(<<9, 255, 0, 7>>, 24),
                 PrefixFrom(<<10, 0, 0, 0>>, 8)>>
    /\ cmpOut[1][2] = 1 /\ cmpOut[2][3] = 1 /\ cmpOut[1][3] = 1
    /\ sortOut[1] = <<cmpIn[3], cmpIn[2], cmpIn[1]>>

-----------------------------------------------------------------------------
(* C5: for any input list of IPv4 prefixes (repeated, nested, overlapping, *)
(* several longer than /24 in one /24), the list convertToIPv4Blocks       *)
(* returns has no duplicate entry, only entries of length 24, and is       *)
(* strictly ascending under prefixCompare.                                 *)

C5_NoDuplicatesSorted ==
    (convPc \in {"once", "twice"} /\ ~convOut.panic) =>
        LET out == convOut.val
        IN  /\ \A i, j \in 1..Len(out) : i # j => out[i] # out[j]
            /\ \A i \in 1..Len(out) : out[i].bits = 24
            /\ \A i \in 1..(Len(out) - 1) : prefixCompare(out[i], out[i + 1]) < 0

\* 10.0.0.0/22 and the 10.0.2.0/24 nested in it, given in descending order
C5_Witness ==
    /\ convPc = "once"
    /\ convIn = <<PrefixFrom(<<10, 0, 2, 0>>, 24), PrefixFrom(<<10, 0, 0, 0>>, 22)>>
    /\ convOut = Returned(<<PrefixFrom(<<10, 0, 0, 0>>, 24), PrefixFrom(<<10, 0, 1, 0>>, 24),
                            PrefixFrom(<<10, 0, 2, 0>>, 24), PrefixFrom(<<10, 0, 3, 0>>, 24)>>)

-----------------------------------------------------------------------------
(* C6: IPv4 normalisation is idempotent: for any input list x,             *)
(* convertToIPv4Blocks(convertToIPv4Blocks(x)) is identical to             *)
(* convertToIPv4Blocks(x).                                                 *)

C6_Idempotent ==
    convPc = "twice" => (~convOut2.panic /\ convOut2.val = convOut.val)

-----------------------------------------------------------------------------
(* C7: fetchWithRetrySimple makes at most 4 attempts; when attempts        *)
(* 1..k-1 fail and attempt k <= 4 succeeds it returns exactly attempt k's  *)
(* entries with no error, makes no further attempt, and returns nothing    *)
(* read during the failed attempts; when all 4 fail it returns no data and *)
(* an error that wraps the 4th attempt's error.                            *)

\* a line that decodes, and the entry it decodes to
Decodable(line) == line.kind = "object" /\ line.cidr.tag # "bad" /\ line.asn.tag # "bad"
LineEntry(line) ==
    Entry(IF line.cidr.tag = "ok" THEN line.cidr.val ELSE NoPrefix,
          IF line.asn.tag = "ok" THEN line.asn.val ELSE 0)
DecodedEntries(lines) ==
    LET good == SelectSeq(lines, Decodable)
    IN  [i \in 1..Len(good) |-> LineEntry(good[i])]

\* whether an exchange is a failed attempt
FailedExchange(r) == r.kind = "connErr" \/ r.code # 200 \/ r.end # "eof"

C7_RetryOutcome ==
    /\ calls <= 4
    /\ (retryPc = "done" /\ ret.err = NoErr) =>
           /\ ~FailedExchange(resp)
           /\ calls = attempt /\ lastErr.attempt \in {0, attempt - 1}
           /\ (attempt > 1 => lastErr.attempt = attempt - 1)
           /\ ret.prefixes = DecodedEntries(resp.lines)
           /\ ~ENABLED NextRetry
    /\ (retryPc = "done" /\ ret.err # NoErr) =>
           /\ calls = 4
           /\ FailedExchange(resp)
           /\ ret.prefixes = <<>>
           /\ ret.wraps.attempt = 4
           /\ ret.wraps.err = fetchPrefixesSimple(resp).err
           /\ ~ENABLED NextRetry

\* three failed attempts, one of which had decoded an entry before its
\* stream failed, then a fourth that succeeds with a different entry
C7_Witness ==
    /\ retryPc = "done" /\ ret.err = NoErr
    /\ attempt = 4 /\ calls = 4
    /\ Len(ret.prefixes) = 1
    /\ dropped # {}
    /\ ret.prefixes[1] \notin dropped

-----------------------------------------------------------------------------
(* C9: within one BGP fetch attempt whose response is received and read    *)
(* without a stream error, a line that fails to decode as JSON is skipped  *)
(* and does not fail the attempt: the attempt succeeds with exactly the    *)
(* entries decoded from the decodable lines, in line order.                *)

-----------------------------------------------------------------------------
(* C8: for a delegated-file stream read without a stream error,            *)
(* parseDelegatedFile returns no error and exactly one record per line     *)
(* that, trimmed, is non-blank, does not begin with '#', contains neither  *)
(* '|version|' nor '|summary|' and has at least 7 pipe-delimited fields;   *)
(* the records are in line order, fields 1..7 being registry, cc, type,    *)
(* start, value, date, status; every other line is dropped without error.  *)

\* the line between its first and last non-blank token
Trimmed(line) ==
    LET solid == {i \in 1..Len(line) : line[i] # Blank}
    IN  IF solid = {} THEN <<>>
        ELSE SubSeq(line, CHOOSE i \in solid : \A j \in solid : i <= j,
                          CHOOSE i \in solid : \A j \in solid : i >= j)

\* the positions of the separators, with 0 and Len + 1 as the outer ones
PipePositions(t) == {0, Len(t) + 1} \cup {i \in 1..Len(t) : t[i] = Pipe}
NumFields(t) == Cardinality(PipePositions(t)) - 1
\* the k-th pipe-delimited field: what lies between separators k - 1 and k
FieldOf(t, k) ==
    LET ps == PipePositions(t)
        nth(m) == CHOOSE q \in ps : Cardinality({r \in ps : r < q}) = m
    IN  SubSeq(t, nth(k - 1) + 1, nth(k) - 1)

HasMarker(t, word) ==
    \E i \in 1..(Len(t) - 2) : t[i] = Pipe /\ t[i + 1] = word /\ t[i + 2] = Pipe

IsRecordLine(line) ==
    LET t == Trimmed(line)
    IN  /\ t # <<>>
        /\ t[1] # Hash
        /\ ~HasMarker(t, "version") /\ ~HasMarker(t, "summary")
        /\ NumFields(t) >= 7

RecordOfLine(line) ==
    LET t == Trimmed(line)
    IN  [Registry |-> FieldOf(t, 1), CC |-> FieldOf(t, 2), Type |-> FieldOf(t, 3),
         Start |-> FieldOf(t, 4), Value |-> FieldOf(t, 5), Date |-> FieldOf(t, 6),
         Status |-> FieldOf(t, 7)]

-----------------------------------------------------------------------------
(* C10: end to end, the IPv4 result is exactly the deduplicated, sorted    *)
(* set of /24 blocks obtained from the IPv4 entries whose ASN is listed,   *)
(* so that for pairwise disjoint entries of lengths L_i <= 24 it has       *)
(* exactly the sum of 2^(24-L_i) blocks (1088 for a /14 and a /18); the    *)
(* IPv6 result is empty when no IPv6 entry has a listed ASN.               *)

Listed(e) == \E i \in 1..Len(asnList) : asnList[i] = e.ASN
ListedV4 == SelectSeq(bgp.prefixes, LAMBDA e : Listed(e) /\ Is4(e.CIDR.addr))

\* the /24 networks (by number) that a prefix covers or lies in
Range24(p) ==
    IF p.bits >= 24 THEN {Net24(p.addr)}
    ELSE LET n == Pow2(24 - p.bits)
             first == (Net24(p.addr) \div n) * n
         IN  first..(first + n - 1)

RECURSIVE SumOfBlocks(_)
SumOfBlocks(es) ==
    IF es = <<>> THEN 0 ELSE Pow2(24 - Head(es).CIDR.bits) + SumOfBlocks(Tail(es))

C10_EndToEnd ==
    (pfxPc = "done" /\ bgp.err = NoErr) =>
        /\ ~prefixSet.panic /\ ~prefixSet.nil /\ prefixSet.err = NoErr
        /\ LET out == prefixSet.IPv4
           IN  /\ \A i \in 1..Len(out) : out[i].bits = 24
               /\ \A i \in 1..(Len(out) - 1) : prefixCompare(out[i], out[i + 1]) < 0
               /\ {Net24(out[i].addr) : i \in 1..Len(out)}
                      = UNION {Range24(ListedV4[i].CIDR) : i \in 1..Len(ListedV4)}
               /\ (/\ \A i \in 1..Len(ListedV4) : ListedV4[i].CIDR.bits <= 24
                   /\ \A i, j \in 1..Len(ListedV4) :
                          i # j => Range24(ListedV4[i].CIDR) \cap Range24(ListedV4[j].CIDR) = {})
                  => Len(out) = SumOfBlocks(ListedV4)
        /\ (~\E i \in 1..Len(bgp.prefixes) :
                Listed(bgp.prefixes[i]) /\ Is6(bgp.prefixes[i].CIDR.addr))
               => prefixSet.IPv6 = <<>>

-----------------------------------------------------------------------------
(* C20: an integer a is in the result of extractASNsForCountry if and only *)
(* if a is a valid public ASN and some record has type exactly "asn", the  *)
(* country code cc, a status other than "reserved" and "available",        *)
(* integer-parseable start and count, and start <= a < start + count; any  *)
(* other record contributes nothing.                                       *)

Parseable(r) == Atoi(r.Start).ok /\ Atoi(r.Value).ok

Selected(r) ==
    /\ r.Type = <<"asn">>
    /\ r.CC = <<exCC>>
    /\ r.Status \notin {<<"reserved">>, <<"available">>}
    /\ Parseable(r)

InRangeOf(r, a) ==
    /\ Selected(r)
    /\ Lt(I64(0, 0), Atoi(r.Value).val)
    /\ Le(Atoi(r.Start).val, a)
    /\ Lt(a, AddSmall(Atoi(r.Start).val, IntOf(Atoi(r.Value).val)))

\* the integers looked at: the result, and every range written in a record
\* (selected or not), with one integer before it and two after it
Candidates ==
    {exAsns[i] : i \in 1..Len(exAsns)}
        \cup UNION {{AddSmall(Atoi(exRecords[j].Start).val, k) :
                        k \in (0 - 1)..(IntOf(Atoi(exRecords[j].Value).val) + 1)} :
                    j \in {j \in 1..Len(exRecords) : Parseable(exRecords[j])}}

C20_ExtractExactly ==
    exPc = "done" =>
        \A a \in Candidates :
            (\E i \in 1..Len(exAsns) : exAsns[i] = a)
                <=> (isValidPublicASN(a) /\ \E j \in 1..Len(exRecords) : InRangeOf(exRecords[j], a))

C20_Witness ==
    /\ exPc = "done" /\ exCC = "IR" /\ Len(exRecords) = 2
    /\ exRecords[1] = Rec("IR", "asn", Itoa(64510), Itoa(3), "assigned")
    /\ exRecords[2] = Rec("IR", "asn", Itoa(12880), Itoa(1), "reserved")
    /\ exAsns = <<I64(0, 64510), I64(0, 64511)>>

-----------------------------------------------------------------------------
(* C13: for any delegated records, also with overlapping or repeated ASN   *)
(* ranges, the list FetchASNsForCountry returns (the extracted ASNs after  *)
(* sort.Ints) is in ascending order and holds each ASN at most once.       *)

C13_AscendingDistinct ==
    exPc = "done" =>
        \A i \in 1..(Len(exSorted) - 1) : Lt(exSorted[i], exSorted[i + 1])

-----------------------------------------------------------------------------
(* C14: the IPv6 list of the PrefixSet GetPrefixesForASNs returns holds no *)
(* prefix twice (also when several entries with listed ASNs carry the same *)
(* prefix), every element is one of the matching input prefixes,           *)
(* unchanged, and the list is sorted by prefixCompare.                     *)

ListedV6 == SelectSeq(bgp.prefixes, LAMBDA e : Listed(e) /\ Is6(e.CIDR.addr))

C14_IPv6DistinctSorted ==
    (pfxPc = "done" /\ ~prefixSet.nil) =>
        LET out == prefixSet.IPv6
        IN  /\ \A i, j \in 1..Len(out) : i # j => out[i] # out[j]
            /\ \A i \in 1..Len(out) : \E k \in 1..Len(ListedV6) : out[i] = ListedV6[k].CIDR
            /\ \A i \in 1..(Len(out) - 1) : prefixCompare(out[i], out[i + 1]) <= 0

-----------------------------------------------------------------------------
(* C11: FetchASNsForCountry with a country code absent from the            *)
(* country-to-registry table returns an error and no ASN list, and sends   *)
(* no request to any registry.                                             *)

C11_UnsupportedCountry ==
    (country \notin DOMAIN CountryToRIR /\ runPc \notin {"idle", "start"}) =>
        /\ asnsRet.err # NoErr
        /\ asnsRet.nil /\ asnsRet.asns = <<>>
        /\ regRequests = <<>> /\ regResp = NoResponse

C11_Witness ==
    /\ country = "XX" /\ runPc = "failed"
    /\ asnsRet.err = Err("no RIR mapping found for country code", 0)
    /\ regRequests = <<>>

-----------------------------------------------------------------------------
(* C12: IR, CN and RU are supported by ASN resolution: IR maps to the RIPE *)
(* NCC delegated file, CN to the APNIC file and RU to the RIPE NCC file,   *)
(* so that a run for RU reaches the registry fetch.                        *)

C12_SupportedCountries ==
    (country \in {"IR", "CN", "RU"} /\ runPc \notin {"idle", "start"}) =>
        /\ rir = IF country = "CN" THEN APNIC ELSE RIPE_NCC
        /\ runPc = "request" \/ regRequests = <<rir.URL>>

-----------------------------------------------------------------------------
(* C16: when the registry request fails (connection error, status other    *)
(* than 200, or stream read error), FetchASNsForCountry returns an error   *)
(* after exactly one request: the registry fetch is not retried and the    *)
(* BGP table fetch is never started for that country.                      *)

RegistryFailed ==
    \/ regResp.kind = "connErr"
    \/ regResp.kind = "http" /\ (regResp.code # 200 \/ regResp.end # "eof")

C16_RegistryFailureNoRetry ==
    RegistryFailed =>
        /\ asnsRet.err # NoErr /\ asnsRet.nil
        /\ Len(regRequests) = 1
        /\ retryPc = "idle" /\ calls = 0 /\ pfxPc = "idle"
        /\ runPc \in {"resolved", "failed"}

C16_Witness ==
    /\ runPc = "failed" /\ regResp.kind = "http" /\ regResp.end = "readErr"
    /\ regRequests = <<RIPE_NCC.URL>> /\ calls = 0

-----------------------------------------------------------------------------
(* C15: in fetchAndSavePrefixes, when the registry fetch fails or the BGP  *)
(* fetch fails after all retries, the resolution ends with an error, no    *)
(* PrefixSet is returned, and neither output file is created or written;   *)
(* files are written only after both fetches have succeeded.               *)

TableFetchFailed == retryPc = "done" /\ ret.err # NoErr

FailureLeavesNothing ==
    /\ (RegistryFailed /\ runPc # "resolved") =>
           runPc = "failed" /\ runErr # NoErr /\ prefixSet = NoPrefixSet /\ files = {}
    /\ (TableFetchFailed /\ runPc # "bgp") =>
           /\ calls = maxRetries
           /\ prefixSet.nil /\ prefixSet.err # NoErr
           /\ prefixSet.IPv4 = <<>> /\ prefixSet.IPv6 = <<>>
           /\ files = {}
           /\ runPc = "failed" => runErr # NoErr
           /\ runPc \in {"returned", "failed"}

\* the claim as stated
C15_FilesOnlyAfterBothFetches ==
    /\ FailureLeavesNothing
    /\ files # {} =>
           /\ asnsRet.err = NoErr /\ Len(regRequests) = 1
           /\ retryPc = "done" /\ ret.err = NoErr

\* as amended: with an empty ASN list there is no BGP fetch at all
C15_FilesOnlyWithoutFailedFetch ==
    /\ FailureLeavesNothing
    /\ files # {} =>
           /\ asnsRet.err = NoErr /\ Len(regRequests) = 1
           /\ \/ retryPc = "done" /\ ret.err = NoErr
              \/ asnsRet.asns = <<>> /\ retryPc = "idle" /\ calls = 0

C15_Witness ==
    /\ runPc = "failed" /\ TableFetchFailed /\ calls = maxRetries
    /\ asnsRet.err = NoErr /\ prefixSet.nil /\ files = {}

-----------------------------------------------------------------------------
(* C18: a BGP fetch attempt that receives a successful response with an    *)
(* empty body is a success with zero entries: fetchWithRetrySimple returns *)
(* without error and without a retry, and GetPrefixesForASNs then returns  *)
(* a PrefixSet with empty IPv4 and IPv6 lists and no error.                *)

EmptyTable == Response("http", 200, <<>>, "eof")

C18_EmptyTableIsSuccess ==
    resp = EmptyTable =>
        /\ retryPc = "done"
        /\ ret.err = NoErr /\ ret.prefixes = <<>>
        /\ Len(delays) = calls - 1
        /\ runPc # "bgp" => prefixSet = PrefixSet(<<>>, <<>>)

C18_Witness ==
    /\ resp = EmptyTable /\ calls = 2 /\ runPc = "done"
    /\ prefixSet = PrefixSet(<<>>, <<>>)
    /\ files = {[name |-> <<"ir", "_prefixes_v4.txt">>, lines |-> <<>>],
                [name |-> <<"ir", "_prefixes_v6.txt">>, lines |-> <<>>]}

-----------------------------------------------------------------------------
(* C17: in fetchWithRetrySimple the attempts are strictly sequential with  *)
(* linear backoff: attempt k+1 (k = 1..3) starts only after attempt k has  *)
(* failed and a delay of exactly k base units has elapsed; no delay        *)
(* follows the 4th failed attempt or a successful attempt, so exhaustion   *)
(* costs 1+2+3 = 6 base units of delay.                                    *)

RECURSIVE SumOf(_)
SumOf(q) == IF q = <<>> THEN 0 ELSE Head(q) + SumOf(Tail(q))

-----------------------------------------------------------------------------
(* C19: parseDelegatedFile returns an error if and only if reading the     *)
(* stream fails; when the stream fails after well-formed lines have been   *)
(* consumed, it returns the error with no records at all.                  *)

-----------------------------------------------------------------------------
(* C21: filterByASN places an entry's prefix in the IPv4 bucket if and     *)
(* only if the entry's ASN is in the list and its address is IPv4, and in  *)
(* the IPv6 bucket if and only if its ASN is in the list and its address   *)
(* is IPv6; an entry with an unlisted ASN or with a prefix that is neither *)
(* (the zero prefix) is in neither bucket, and no prefix appears that is   *)
(* not in the input.                                                       *)

InList(e) == \E i \in 1..Len(filtAsns) : filtAsns[i] = e.ASN
Placed(bucket, p) == \E i \in 1..Len(bucket) : bucket[i] = p
Occurrences(bucket, p) == Cardinality({i \in 1..Len(bucket) : bucket[i] = p})

\* every prefix of the input and of the two buckets
PrefixesSeen ==
    {filtPrefixes[i].CIDR : i \in 1..Len(filtPrefixes)}
        \cup {filtOut.v4[i] : i \in 1..Len(filtOut.v4)}
        \cup {filtOut.v6[i] : i \in 1..Len(filtOut.v6)}

C21_BucketsExactly ==
    filtPc = "done" =>
        \A p \in PrefixesSeen :
            LET from4 == {i \in 1..Len(filtPrefixes) :
                             /\ filtPrefixes[i].CIDR = p /\ InList(filtPrefixes[i])
                             /\ Len(p.addr) = 4}
                from6 == {i \in 1..Len(filtPrefixes) :
                             /\ filtPrefixes[i].CIDR = p /\ InList(filtPrefixes[i])
                             /\ Len(p.addr) = 16}
            IN  /\ Placed(filtOut.v4, p) <=> from4 # {}
                /\ Placed(filtOut.v6, p) <=> from6 # {}
                /\ Occurrences(filtOut.v4, p) = Cardinality(from4)
                /\ Occurrences(filtOut.v6, p) = Cardinality(from6)

C21_Witness ==
    /\ filtPc = "done" /\ filtAsns = <<12880>>
    /\ filtPrefixes = <<Entry(NoPrefix, 12880), Entry(PrefixFrom(<<10, 0, 4, 0>>, 24), 48159)>>
    /\ filtOut = NoBuckets

-----------------------------------------------------------------------------
(* C22: for every IPv4 prefix p of length L < 24, also one whose address   *)
(* has bits set beyond its first L bits or that lies at the top of the     *)
(* address space, splitToBlocks(p) returns the /24 blocks at the addresses *)
(* network(p) + 256*i for i = 0 .. 2^(24-L)-1, in increasing order: it     *)
(* starts at p's network address, every last octet is zero, and no block   *)
(* address reaches 2^32.                                                   *)

\* the /24 block with the given network number
Block24(n) == PrefixFrom(<<n \div 65536, (n \div 256) % 256, n % 256, 0>>, 24)

C22_SplitFromNetwork ==
    (splitPc = "done" /\ splitIn.bits < 24) =>
        /\ ~splitOut.panic
        /\ LET n == Pow2(24 - splitIn.bits)
               network == (Net24(splitIn.addr) \div n) * n
           IN  /\ Len(splitOut.val) = n
               /\ \A i \in 1..Len(splitOut.val) : splitOut.val[i] = Block24(network + i - 1)

-----------------------------------------------------------------------------
(* C24: GetPrefixesForASNs called with an empty ASN list returns an empty  *)
(* PrefixSet (empty IPv4 and IPv6 lists) with no error and without any BGP *)
(* fetch attempt, so it succeeds whatever the BGP endpoint would answer.   *)

C24_EmptyListNoFetch ==
    (pfxPc = "done" /\ asnList = <<>>) =>
        /\ prefixSet = PrefixSet(<<>>, <<>>)
        /\ retryPc = "idle" /\ calls = 0 /\ resp = NoResponse /\ delays = <<>>

C24_Witness ==
    /\ pfxPc = "done" /\ asnList = <<>> /\ country = "CN" /\ runPc = "returned"
    /\ regResp = Response("http", 200, <<RegLine("apnic", "CN", 4808, 1, "reserved")>>, "eof")
    /\ prefixSet = PrefixSet(<<>>, <<>>) /\ calls = 0

-----------------------------------------------------------------------------
(* C23: in fetchPrefixesForCountry the IPv4 writer and the IPv6 writer run *)
(* as two concurrent tasks that write two different files and share no     *)
(* mutable state; under every interleaving "fetch complete" is reached     *)
(* only after both writers have finished, and a failure of one writer      *)
(* neither stops nor alters the other writer's output.                     *)

\* writer t has returned or panicked
Finished(t) == tpc[t] \in {"done", "panicked"}

\* writer t failed: it panicked, writeToFile returned an error, or its last
\* Flush failed
OwnFailure(t) == tpc[t] = "panicked" \/ terr[t] # NoErr \/ tflush[t] # NoErr

\* the file writer t leaves when nothing fails
ExpectedFile(t) ==
    LET plan == PlanOf(t, buckets)
    IN  IF plan.kind = "write" THEN FileOf(plan.list) ELSE NoFile

DifferentFiles == wrPc # "idle" => cfg.OutputFileV4 # cfg.OutputFileV6

CompleteAfterBoth == wrPc = "complete" => \A t \in Writers : Finished(t)

\* a writer that returned without a failure of its own left its whole file,
\* whatever the other one did
OutputUnaltered ==
    \A t \in Writers :
        tpc[t] = "done" /\ ~OwnFailure(t) => disk[OutputFile(cfg, t)] = ExpectedFile(t)

\* the process does not end on one writer's failure while the other writer
\* is still at work
NeverStopped == crashed => \A t \in Writers : Finished(t)

C23_WritersIndependent ==
    DifferentFiles /\ CompleteAfterBoth /\ OutputUnaltered /\ NeverStopped

====
